---- MODULE Spec2Model ----
(***************************************************************************)
(* Tunisie Homes: the ingestion pipeline (normalizer, upsert client,       *)
(* neighbourhood statistics, deal rating) and the admin editor, as state   *)
(* machines.                                                               *)
(*                                                                         *)
(* Conventions.  A nullable value is None (<<>>) or Some(x) (<<x>>).  A    *)
(* Python dict / JS object is a function whose DOMAIN is the set of keys   *)
(* that are present.  A rational number is a pair <<n, d>> with d > 0 in   *)
(* lowest terms.  A deal rating is held in tenths of a point (1000 is      *)
(* 100.0), because the code rounds it to one decimal place.                *)
(***************************************************************************)
EXTENDS Integers, Sequences, FiniteSets, TLC

VARIABLES
    rateIn,     \* the arguments of one calculate_deal_rating call
    rateOut,    \* its result, once it has returned
    clsIn,      \* the arguments of one _extract_listing_type call
    clsOut,     \* its result, once it has returned
    properties, \* the properties table: a set of rows
    nextId,     \* the id the next inserted row gets
    clock,      \* the current time
    lastWrite,  \* history: the most recent write to the properties table
    calls,      \* the upsert calls in progress, one per concurrent caller
    stats,      \* the neighborhood_stats table
    batch,      \* the orchestrator's run over one batch of listings
    ingest,     \* one listing on its way through normalize, geocode, persist
    auth,       \* the admin middleware: its environment, a request, the answer
    geo,        \* the geocoder over a run: the time and the provider calls made
    editor      \* the admin editor: the images table, the page state, calls in flight

vars ==
    <<rateIn, rateOut, clsIn, clsOut, properties, nextId, clock, lastWrite,
      calls, stats, batch, ingest, auth, geo, editor>>

storeVars == <<properties, nextId, clock, lastWrite>>

rateVars == <<rateIn, rateOut>>

clsVars == <<clsIn, clsOut>>

(***************************************************************************)
(* Nullable values and dicts                                               *)
(***************************************************************************)
None == <<>>

Some(x) == <<x>>

Val(o) == o[1]

\* dict.get(key): the value, or None when the key is absent
Get(d, k) == IF k \in DOMAIN d THEN d[k] ELSE None

\* dict.get(key, default)
GetOr(d, k, default) == IF k \in DOMAIN d THEN d[k] ELSE default

\* Python truthiness of a nullable number: None and 0 are falsy
TruthyNum(o) == o # None /\ Val(o) # 0

\* Python truthiness of a nullable string: None and "" are falsy
TruthyStr(o) == o # None /\ Val(o) # ""

(***************************************************************************)
(* Exact rational arithmetic (Python floats, without their rounding error) *)
(***************************************************************************)
Abs(x) == IF x < 0 THEN -x ELSE x

RECURSIVE GCD(_, _)
GCD(a, b) == IF b = 0 THEN a ELSE GCD(b, a % b)

Rat(n, d) ==
    LET g == GCD(Abs(n), Abs(d))
        s == IF d < 0 THEN -1 ELSE 1
    IN  <<(s * n) \div g, (s * d) \div g>>

RInt(n) == <<n, 1>>

RAdd(x, y) == Rat(x[1] * y[2] + y[1] * x[2], x[2] * y[2])

RSub(x, y) == Rat(x[1] * y[2] - y[1] * x[2], x[2] * y[2])

RMul(x, y) == Rat(x[1] * y[1], x[2] * y[2])

RDiv(x, y) == Rat(x[1] * y[2], x[2] * y[1])

RLess(x, y) == x[1] * y[2] < y[1] * x[2]

RMax(x, y) == IF RLess(x, y) THEN y ELSE x

RMin(x, y) == IF RLess(x, y) THEN x ELSE y

\* round(x, 1) in tenths, for x >= 0.  Python rounds the binary double to the
\* nearest tenth; on an exact decimal tie the double may lie on either side,
\* so both neighbours are possible results.
Round1(x) ==
    LET n == 10 * x[1]
        d == x[2]
        t == n \div d
        r == n - t * d
    IN  IF 2 * r < d THEN {t}
        ELSE IF 2 * r > d THEN {t + 1}
        ELSE {t, t + 1}

(***************************************************************************)
(* Deal rating (price_analyzer.py)                                         *)
(***************************************************************************)
\* PriceAnalyzer._get_neighborhood_avg: the rows of NeighborhoodStats with
\* .eq("city", city), of which result.data[0] is used.  The query has no
\* ORDER BY, so any matching row may come first.  The results are the
\* possible return values: an average, or None when no row matches.
_get_neighborhood_avg(table, city) ==
    LET hits == {i \in 1..Len(table) : table[i].city = city}
    IN  IF hits = {} THEN {None}
        ELSE {Some(table[i].avgPricePerSqm) : i \in hits}

\* Mutant: the rating without max(0, min(100, .)).
RatingFromUnclamped(avg, price_per_sqm) ==
    LET discount == RMul(RDiv(RSub(avg, price_per_sqm), avg), RInt(100))
    IN  Round1(RAdd(RInt(50), RMul(discount, <<5, 2>>)))

\* Mutant: the discount scaled by 2 instead of 2.5.
RatingFromScale2(avg, price_per_sqm) ==
    LET discount == RMul(RDiv(RSub(avg, price_per_sqm), avg), RInt(100))
        deal_rating == RAdd(RInt(50), RMul(discount, <<2, 1>>))
    IN  Round1(RMax(RInt(0), RMin(RInt(100), deal_rating)))

\* The rating for one neighbourhood average, in tenths: lines 352-362.
RatingFrom(avg, price_per_sqm) ==
    LET discount == RMul(RDiv(RSub(avg, price_per_sqm), avg), RInt(100))
        deal_rating == RAdd(RInt(50), RMul(discount, <<5, 2>>))
        clamped == RMax(RInt(0), RMin(RInt(100), deal_rating))
    IN  Round1(clamped)

\* Mutant: a price of 0 is not treated as missing.
calculate_deal_rating_zero_price(property_data, table) ==
    LET city == Get(property_data, "city")
        surface == Get(property_data, "surfaceArea")
        price == Get(property_data, "price")
    IN  IF ~(TruthyStr(city) /\ TruthyNum(surface) /\ price # None)
        THEN {None}
        ELSE LET avgs == _get_neighborhood_avg(table, Val(city))
             IN  UNION {IF a = None \/ Val(a)[1] = 0
                        THEN {None}
                        ELSE {Some(r) : r \in RatingFrom(Val(a), Rat(Val(price), Val(surface)))}
                        : a \in avgs}

\* PriceAnalyzer.calculate_deal_rating: the set of results the call may
\* return (None, or Some(rating in tenths)).
calculate_deal_rating(property_data, table) ==
    LET city == Get(property_data, "city")
        surface == Get(property_data, "surfaceArea")
        price == Get(property_data, "price")
    IN  IF ~(TruthyStr(city) /\ TruthyNum(surface) /\ TruthyNum(price))
        THEN {None}
        ELSE LET price_per_sqm == Rat(Val(price), Val(surface))
                 avgs == _get_neighborhood_avg(table, Val(city))
             IN  UNION {IF a = None \/ Val(a)[1] = 0
                        THEN {None}
                        ELSE {Some(r) : r \in RatingFrom(Val(a), price_per_sqm)}
                        : a \in avgs}

(***************************************************************************)
(* SpecRate: calculate_deal_rating applied to bounded inputs               *)
(***************************************************************************)
RateCities == {None, Some(""), Some("Tunis"), Some("Sfax")}

\* The property's region; calculate_deal_rating never reads it
RateRegions == {None, Some("Marsa")}

RateSurfaces == {None, Some(0), Some(100), Some(3)}

RatePrices == {None, Some(0), Some(1), Some(200000), Some(250000),
               Some(300000), Some(224901), Some(900000)}

RateAvgs == {<<0, 1>>, <<2500, 1>>, <<7, 3>>, <<-2500, 1>>}

StatsRow(city, region, avg) ==
    [city |-> city, region |-> region, avgPricePerSqm |-> avg,
     medianPrice |-> 0, totalListings |-> 1, activeListings |-> 1]

\* NeighborhoodStats tables of at most two rows; a city may have rows for
\* several regions
RateTables ==
    LET rows == {StatsRow(c, g, a) : c \in {"Tunis", "Sfax"},
                                     g \in {None, Some("Marsa"), Some("Carthage")},
                                     a \in RateAvgs}
    IN  {<<>>} \cup {<<r>> : r \in rows}
        \cup {<<r1, r2>> : r1 \in {StatsRow("Tunis", None, <<2500, 1>>),
                                    StatsRow("Tunis", Some("Carthage"), <<2500, 1>>)},
                           r2 \in rows}

RatePending == [done |-> FALSE, value |-> None]

RateIdle ==
    /\ rateIn = [property_data |-> [city |-> None, region |-> None,
                                    surfaceArea |-> None, price |-> None],
                 table |-> <<>>]
    /\ rateOut = RatePending

ClsIdle ==
    /\ clsIn = [url |-> <<>>, title |-> <<>>, description |-> <<>>]
    /\ clsOut = [done |-> FALSE, value |-> ""]

NoWrite == [kind |-> "none", data |-> <<>>, before |-> None, repeat |-> FALSE, at |-> 0]

\* The tables are empty until the data factory is run (docs/status.md)
StoreEmpty ==
    /\ properties = {}
    /\ nextId = 1
    /\ clock = 0
    /\ lastWrite = NoWrite

NoCalls == calls = <<>>

\* The neighborhood_stats table before its first row; whether two rows with
\* a NULL region conflict on (city, region) depends on how the unique index
\* was created
EmptyStats(nullsDistinct) == [rows |-> {}, nextId |-> 1, nullsDistinct |-> nullsDistinct]

StatsIdle == stats = EmptyStats(TRUE)

NoBatch == batch = <<>>

NoIngest == ingest = <<>>

NoAuth == auth = <<>>

NoGeo == geo = <<>>

NoEditor == editor = <<>>

InitRate ==
    /\ ClsIdle
    /\ StoreEmpty
    /\ NoCalls
    /\ StatsIdle
    /\ NoBatch
    /\ NoIngest
    /\ NoAuth
    /\ NoGeo
    /\ NoEditor
    /\ rateIn \in [property_data : {[city |-> c, region |-> g, surfaceArea |-> s, price |-> p] :
                                        c \in RateCities, g \in RateRegions,
                                        s \in RateSurfaces, p \in RatePrices},
                   table : RateTables]
    /\ rateOut = RatePending

Rate ==
    /\ ~rateOut.done
    /\ \E r \in calculate_deal_rating(rateIn.property_data, rateIn.table) :
           rateOut' = [done |-> TRUE, value |-> r]
    /\ UNCHANGED <<geo, editor, rateIn, clsVars, ingest, auth, storeVars, calls, stats, batch>>

NextRate == Rate

SpecRate == InitRate /\ [][NextRate]_vars

(***************************************************************************)
(* Deal rating: properties                                                 *)
(***************************************************************************)
\* The averages the call can be given for the property's city
RateInAvgs ==
    IF TruthyStr(rateIn.property_data.city)
    THEN {rateIn.table[i].avgPricePerSqm :
              i \in {j \in 1..Len(rateIn.table) :
                         rateIn.table[j].city = Val(rateIn.property_data.city)}}
    ELSE {}

\* The property has a city and a non-zero surface, and every stats row of
\* its city has a positive average
RateHasStats ==
    /\ TruthyStr(rateIn.property_data.city)
    /\ TruthyNum(rateIn.property_data.surfaceArea)
    /\ Val(rateIn.property_data.surfaceArea) > 0
    /\ RateInAvgs # {}
    /\ \A a \in RateInAvgs : a[1] > 0

RatePps == Rat(Val(rateIn.property_data.price), Val(rateIn.property_data.surfaceArea))

\* C7: calculate_deal_rating returns None or a rating r with 0 <= r <= 100
\* (0..1000 tenths), whatever the property and the stats table.
C7_RatingInRange ==
    rateOut.done =>
        \/ rateOut.value = None
        \/ (Val(rateOut.value) >= 0 /\ Val(rateOut.value) <= 1000)

\* C7 witness: a rating was returned for a property priced far above the
\* average, where the unclamped formula is negative.
C7_Witness ==
    /\ rateOut.done
    /\ rateOut.value = Some(0)
    /\ RateHasStats
    /\ rateIn.property_data.price = Some(900000)

\* C8 as stated: a property with pricePerArea = 0 whose locality has stats is
\* rated 100, and one priced far above the average is rated 0.
C8_Original ==
    (rateOut.done /\ RateHasStats /\ rateIn.property_data.price # None) =>
        /\ (RatePps[1] = 0 => rateOut.value = Some(1000))
        /\ ((\A a \in RateInAvgs : ~RLess(RatePps, RMul(a, <<6, 5>>)))
                => rateOut.value = Some(0))

\* C8 amended: a price of 0 counts as missing and is not rated (None); a
\* positive pricePerArea at most 80% of the average, however close to 0, is
\* rated exactly 100; a pricePerArea at least 120% of the average is rated 0.
C8_Clamped ==
    (rateOut.done /\ RateHasStats /\ rateIn.property_data.price # None) =>
        /\ (RatePps[1] = 0 => rateOut.value = None)
        /\ ((RatePps[1] > 0 /\ \A a \in RateInAvgs : ~RLess(RMul(a, <<4, 5>>), RatePps))
                => rateOut.value = Some(1000))
        /\ ((\A a \in RateInAvgs : ~RLess(RatePps, RMul(a, <<6, 5>>)))
                => rateOut.value = Some(0))

\* C8 witness: the degenerate case, a price of 0 in a locality with stats
C8_Witness ==
    /\ rateOut.done
    /\ RateHasStats
    /\ rateIn.property_data.price = Some(0)
    /\ rateOut.value = None

\* 50 + 2.5 * discountPct clamped to [0, 100], as a rational
ExactRating(avg, pps) ==
    LET discountPct == RMul(RDiv(RSub(avg, pps), avg), RInt(100))
    IN  RMax(RInt(0), RMin(RInt(100), RAdd(RInt(50), RMul(discountPct, <<5, 2>>))))

\* The L'Aouina example: avgPricePerArea = 2500, surfaceArea = 100
RateExample(price) ==
    /\ rateIn.property_data.city = Some("Tunis")
    /\ rateIn.property_data.surfaceArea = Some(100)
    /\ rateIn.property_data.price = Some(price)
    /\ RateInAvgs = {<<2500, 1>>}

\* C9 as stated: the rating is exactly 50 + 2.5 * discountPct clamped to
\* [0, 100].
C9_Original ==
    (rateOut.done /\ rateOut.value # None /\ RateHasStats) =>
        \E a \in RateInAvgs : Rat(Val(rateOut.value), 10) = ExactRating(a, RatePps)

\* C9 amended: the rating is 50 + 2.5 * discountPct clamped to [0, 100] and
\* rounded to one decimal place; the boundaries are inclusive: 20% below the
\* average rates exactly 100, the average rates 50, 20% above rates exactly 0.
C9_RoundedFormula ==
    rateOut.done =>
        /\ (rateOut.value # None /\ RateHasStats) =>
               \E a \in RateInAvgs :
                   LET x == ExactRating(a, RatePps)
                       r == Val(rateOut.value)
                   IN  /\ 2 * Abs(10 * x[1] - r * x[2]) <= x[2]
                       /\ (x[2] = 1 => r = 10 * x[1])
        /\ (RateExample(200000) => rateOut.value = Some(1000))
        /\ (RateExample(250000) => rateOut.value = Some(500))
        /\ (RateExample(300000) => rateOut.value = Some(0))

\* C9 witness: the boundary example, priced exactly 20% below the average
C9_Witness ==
    /\ rateOut.done
    /\ RateExample(200000)
    /\ rateOut.value = Some(1000)

\* The averages of the stats rows whose (city, region) is the property's own
RateLocalityAvgs ==
    {rateIn.table[i].avgPricePerSqm :
         i \in {j \in 1..Len(rateIn.table) :
                    /\ Some(rateIn.table[j].city) = rateIn.property_data.city
                    /\ rateIn.table[j].region = rateIn.property_data.region}}

\* C19: a rating that is returned was computed from a stats row whose
\* (city, region) equals the property's own (city, region); the row of
\* another region of the same city is never used.
C19_RatedFromOwnLocality ==
    (rateOut.done /\ rateOut.value # None) =>
        \E a \in RateLocalityAvgs :
            /\ a[1] # 0
            /\ Val(rateOut.value) \in RatingFrom(a, RatePps)

\* What does hold: a rating that is returned was computed from a stats row
\* of the property's city, whatever the region of the row
C19_RatedFromCityRow ==
    (rateOut.done /\ rateOut.value # None) =>
        \E a \in RateInAvgs :
            /\ a[1] # 0
            /\ Val(rateOut.value) \in RatingFrom(a, RatePps)

\* C18: the call returns None when no stats row exists for the property's
\* locality and when the property has no price or no surfaceArea; in every
\* other case it returns a number.  A price or surfaceArea of 0 is counted
\* as lacking.
C18_NullExactlyWhenUnratable ==
    rateOut.done =>
        (rateOut.value = None <=>
            \/ RateLocalityAvgs = {}
            \/ ~TruthyNum(rateIn.property_data.price)
            \/ ~TruthyNum(rateIn.property_data.surfaceArea))

\* What does hold: without a city, a surfaceArea or a price, or without a
\* stats row of the city, the call returns None
C18_NullWithoutInputs ==
    (/\ rateOut.done
     /\ \/ rateIn.property_data.city = None
        \/ rateIn.property_data.price = None
        \/ rateIn.property_data.surfaceArea = None
        \/ RateInAvgs = {})
        => rateOut.value = None

(***************************************************************************)
(* Text.  A string is a sequence of characters; a character is a           *)
(* one-letter string, except the non-ASCII ones, which are named: "agrave" is  *)
(* a-grave, and the Arabic letters are "lam", "kaf", "ra", "alif",         *)
(* "hamza", "ba", "ya", "ayn".                                             *)
(***************************************************************************)
Upper ==
    <<"A", "B", "C", "D", "E", "F", "G", "H", "I", "J", "K", "L", "M", "N", "O", "P",
      "Q", "R", "S", "T", "U", "V", "W", "X", "Y", "Z", "AGRAVE", "EACUTE">>

Lower ==
    <<"a", "b", "c", "d", "e", "f", "g", "h", "i", "j", "k", "l", "m", "n", "o", "p",
      "q", "r", "s", "t", "u", "v", "w", "x", "y", "z", "agrave", "eacute">>

\* str.lower(), character by character
LowerChar(c) ==
    IF \E i \in 1..Len(Upper) : Upper[i] = c
    THEN Lower[CHOOSE i \in 1..Len(Upper) : Upper[i] = c]
    ELSE c

ToLower(text) == [i \in 1..Len(text) |-> LowerChar(text[i])]

\* Python: kw in text (kw is a substring of text)
Occurs(kw, text) ==
    \E i \in 1..(Len(text) - Len(kw) + 1) : SubSeq(text, i, i + Len(kw) - 1) = kw

RECURSIVE Join(_)
\* " ".join(words)
Join(words) ==
    IF words = <<>> THEN <<>>
    ELSE IF Len(words) = 1 THEN words[1]
    ELSE words[1] \o <<" ">> \o Join(Tail(words))

(***************************************************************************)
(* Listing-type classification (normalizer.py)                             *)
(***************************************************************************)
W_louer == <<"l", "o", "u", "e", "r">>

W_location == <<"l", "o", "c", "a", "t", "i", "o", "n">>

W_vendre == <<"v", "e", "n", "d", "r", "e">>

W_vente == <<"v", "e", "n", "t", "e">>

W_lilkira == <<"lam", "lam", "kaf", "ra", "alif", "hamza">>

W_lilbay == <<"lam", "lam", "ba", "ya", "ayn">>

rent_keywords ==
    <<W_louer, W_location, <<"agrave", " ">> \o W_louer, <<"a", " ">> \o W_louer, W_lilkira>>

sale_keywords ==
    <<W_vendre, W_vente, <<"agrave", " ">> \o W_vendre, <<"a", " ">> \o W_vendre, W_lilbay>>

RECURSIVE Score(_, _)
\* sum(1 for kw in keywords if kw in text)
Score(keywords, text) ==
    IF keywords = <<>> THEN 0
    ELSE (IF Occurs(keywords[1], text) THEN 1 ELSE 0) + Score(Tail(keywords), text)

\* Mutant: a tie is classified as RENT.
_extract_listing_type_tie_rent(url, title, description) ==
    LET text == ToLower(url \o <<" ">> \o title \o <<" ">> \o description)
    IN  IF Score(rent_keywords, text) >= Score(sale_keywords, text)
        THEN "RENT" ELSE "SALE"

\* DataNormalizer._extract_listing_type
_extract_listing_type(url, title, description) ==
    LET text == ToLower(url \o <<" ">> \o title \o <<" ">> \o description)
        rent_score == Score(rent_keywords, text)
        sale_score == Score(sale_keywords, text)
    IN  IF rent_score > sale_score THEN "RENT"
        ELSE IF sale_score > rent_score THEN "SALE"
        ELSE "SALE"

(***************************************************************************)
(* SpecClassify: _extract_listing_type applied to bounded texts            *)
(***************************************************************************)
\* The longest title, in words
MaxTitleWords == 2

ClsWords ==
    {W_louer, <<"L", "O", "U", "E", "R">>, W_location, W_vendre, W_vente,
     <<"V", "e", "n", "t", "e">>, <<"v", "i", "l", "l", "a">>, <<"a">>, <<"agrave">>,
     W_lilkira, W_lilbay}

ClsTitles ==
    {Join(ws) : ws \in UNION {[1..n -> ClsWords] : n \in 0..MaxTitleWords}}

ClsDescriptions == {<<>>} \cup ClsWords

ClsUrls == {<<"u", "/", "1">>, <<"u", "/">> \o W_location \o <<"/", "2">>}

InitClassify ==
    /\ RateIdle
    /\ StoreEmpty
    /\ NoCalls
    /\ StatsIdle
    /\ NoBatch
    /\ NoIngest
    /\ NoAuth
    /\ NoGeo
    /\ NoEditor
    /\ clsIn \in [url : ClsUrls, title : ClsTitles, description : ClsDescriptions]
    /\ clsOut = [done |-> FALSE, value |-> ""]

Classify ==
    /\ ~clsOut.done
    /\ clsOut' = [done |-> TRUE,
                  value |-> _extract_listing_type(clsIn.url, clsIn.title, clsIn.description)]
    /\ UNCHANGED <<geo, editor, clsIn, ingest, auth, rateVars, storeVars, calls, stats, batch>>

NextClassify == Classify

SpecClassify == InitClassify /\ [][NextClassify]_vars

(***************************************************************************)
(* Listing-type classification: properties                                 *)
(***************************************************************************)
ClsText == ToLower(clsIn.url \o <<" ">> \o clsIn.title \o <<" ">> \o clsIn.description)

Range(seq) == {seq[i] : i \in 1..Len(seq)}

\* The number of places of the text where a keyword of the set starts
Occurrences(keywords, text) ==
    Cardinality({<<kw, i>> \in Range(keywords) \X (1..Len(text)) :
                     /\ i + Len(kw) - 1 <= Len(text)
                     /\ SubSeq(text, i, i + Len(kw) - 1) = kw})

\* The number of keywords of the set that occur in the text at least once
DistinctHits(keywords, text) ==
    Cardinality({kw \in Range(keywords) : Occurs(kw, text)})

\* C10 as stated: RENT exactly when the rent keywords occur more often than
\* the sale keywords, counting every occurrence; SALE otherwise.
C10_Original ==
    clsOut.done =>
        (clsOut.value = "RENT"
            <=> Occurrences(rent_keywords, ClsText) > Occurrences(sale_keywords, ClsText))

\* C10 amended: RENT exactly when more distinct rent keywords than distinct
\* sale keywords occur in the lower-cased "url title description" (a keyword
\* counts once however often it occurs); SALE otherwise, so every tie,
\* including 0-0, is SALE.
C10_DistinctKeywords ==
    clsOut.done =>
        /\ clsOut.value \in {"RENT", "SALE"}
        /\ (clsOut.value = "RENT"
               <=> DistinctHits(rent_keywords, ClsText) > DistinctHits(sale_keywords, ClsText))
        /\ (DistinctHits(rent_keywords, ClsText) = DistinctHits(sale_keywords, ClsText)
               => clsOut.value = "SALE")

\* C10 witness: a text with no keyword at all (the 0-0 tie) classified SALE
C10_Witness ==
    /\ clsOut.done
    /\ clsOut.value = "SALE"
    /\ Occurrences(rent_keywords, ClsText) = 0
    /\ Occurrences(sale_keywords, ClsText) = 0

(***************************************************************************)
(* The properties table (Supabase / Prisma schema)                         *)
(***************************************************************************)
Columns ==
    {"id", "sourceUrl", "source", "listingType", "status", "title", "price",
     "propertyType", "city", "region", "latitude", "longitude", "surfaceArea",
     "pricePerSqm",
     "features",
     "renovationScore", "dealRating", "aiTags", "descriptionEmbedding",
     "createdAt", "updatedAt", "scrapedAt"}

ListingTypes == {"RENT", "SALE"}

PropertyStatuses == {"ACTIVE", "SOLD", "RENTED", "INACTIVE"}

DataSources == {"TUNISIE_ANNONCE", "USER_UPLOAD", "TAYARA", "MUBAWAB"}

\* The fields an external enrichment process owns
EnrichmentOwned == {"aiTags", "descriptionEmbedding", "dealRating", "renovationScore"}

\* The row constraints of the schema: listingType, source and status are
\* required, and each holds a value of its enum
RowValid(row) ==
    /\ \A k \in {"source", "listingType", "status"} : row[k] # None
    /\ Val(row.listingType) \in ListingTypes
    /\ Val(row.status) \in PropertyStatuses
    /\ Val(row.source) \in DataSources

\* select * from properties where sourceUrl = url
SelectBySourceUrl(table, url) == {r \in table : r.sourceUrl = Some(url)}

\* Mutant: the update also restamps createdAt.
UpdateRowRestampCreated(row, payload) ==
    [k \in Columns |-> IF k \in DOMAIN payload THEN payload[k]
                       ELSE IF k = "createdAt" /\ "updatedAt" \in DOMAIN payload
                       THEN payload["updatedAt"]
                       ELSE row[k]]

\* update properties set <payload> where ...: the columns the payload names
\* are overwritten, the others keep their value
UpdateRow(row, payload) ==
    [k \in Columns |-> IF k \in DOMAIN payload THEN payload[k] ELSE row[k]]

\* The row an insert creates: the id and createdAt are assigned here, a
\* column the payload does not name is NULL
NewRow(payload, id, now) ==
    [k \in Columns |->
        IF k = "id" THEN Some(id)
        ELSE IF k = "createdAt" THEN Some(now)
        ELSE IF k \in DOMAIN payload THEN payload[k]
        ELSE None]

(***************************************************************************)
(* The statistics trigger (update_neighborhood_stats)                      *)
(***************************************************************************)
\* WHERE city IS NOT NULL AND surface_area > 0
StatsSelected(table) ==
    {r \in table : r.city # None /\ r.surfaceArea # None /\ Val(r.surfaceArea) > 0}

\* The rows of one GROUP BY city, region group
StatsGroup(table, key) ==
    {r \in StatsSelected(table) : r.city = key[1] /\ r.region = key[2]}

\* The members of a finite set in some order
SeqOf(set) ==
    CHOOSE q \in [1..Cardinality(set) -> set] : \A x \in set : \E i \in DOMAIN q : q[i] = x

RECURSIVE RSum(_)
RSum(q) == IF q = <<>> THEN RInt(0) ELSE RAdd(Head(q), RSum(Tail(q)))

\* AVG(price / NULLIF(surface_area, 0)); rows without a price are skipped
AvgPricePerSqm(group) ==
    LET priced == SeqOf({r \in group : r.price # None})
    IN  IF Len(priced) = 0 THEN None
        ELSE Some(RDiv(RSum([i \in DOMAIN priced |->
                                Rat(Val(priced[i].price), Val(priced[i].surfaceArea))]),
                       RInt(Len(priced))))

\* PERCENTILE_CONT(0.5) WITHIN GROUP (ORDER BY price)
MedianPrice(group) ==
    LET priced == {r \in group : r.price # None}
        n == Cardinality(priced)
        sorted == CHOOSE q \in [1..n -> priced] :
                      /\ \A x \in priced : \E i \in 1..n : q[i] = x
                      /\ \A i, j \in 1..n : i < j => Val(q[i].price) <= Val(q[j].price)
    IN  IF n = 0 THEN None
        ELSE IF n % 2 = 1 THEN Some(RInt(Val(sorted[(n + 1) \div 2].price)))
        ELSE Some(Rat(Val(sorted[n \div 2].price) + Val(sorted[n \div 2 + 1].price), 2))

\* The row the SELECT produces for one group
StatsValues(table, key, now) ==
    [city |-> key[1], region |-> key[2],
     avg_price_per_sqm |-> AvgPricePerSqm(StatsGroup(table, key)),
     median_price |-> MedianPrice(StatsGroup(table, key)),
     total_listings |-> Cardinality(StatsGroup(table, key)),
     active_listings |->
         Cardinality({r \in StatsGroup(table, key) : r.status = Some("ACTIVE")}),
     updated_at |-> now]

\* ON CONFLICT (city, region): the stored rows a produced row conflicts
\* with.  Two rows with a NULL region conflict only when the unique index
\* does not hold NULLs distinct.
StatsConflicts(st, key) ==
    {e \in st.rows : /\ e.city = key[1]
                     /\ e.region = key[2]
                     /\ (key[2] # None \/ ~st.nullsDistinct)}

\* update_neighborhood_stats(): INSERT ... SELECT ... GROUP BY city, region
\* ON CONFLICT (city, region) DO UPDATE
update_neighborhood_stats(table, st, now) ==
    LET keys == {<<r.city, r.region>> : r \in StatsSelected(table)}
        fresh == SeqOf({k \in keys : StatsConflicts(st, k) = {}})
        updated == {IF \E k \in keys : e \in StatsConflicts(st, k)
                    THEN [id |-> e.id] @@ StatsValues(table, <<e.city, e.region>>, now)
                    ELSE e : e \in st.rows}
        inserted == {[id |-> st.nextId + i - 1] @@ StatsValues(table, fresh[i], now) :
                         i \in DOMAIN fresh}
    IN  [st EXCEPT !.rows = updated \cup inserted, !.nextId = st.nextId + Len(fresh)]

(***************************************************************************)
(* The upsert client (db_client.py)                                        *)
(***************************************************************************)
TruthyList(o) == o # None /\ Val(o) # <<>>

\* DBClient._format_vector: the pgvector literal of an embedding
_format_vector(v) == <<"vector", v>>

\* Mutant: the payload also stamps createdAt.
BuildPayloadStampsCreated(property_data, now) ==
    [k \in {j \in DOMAIN property_data : property_data[j] # None}
            \cup {"createdAt", "updatedAt", "scrapedAt"} |->
        IF k \in {"createdAt", "updatedAt", "scrapedAt"} THEN Some(now)
        ELSE IF k = "descriptionEmbedding"
        THEN Some(_format_vector(Val(property_data[k])))
        ELSE property_data[k]]

\* Mutant: the payload carries no status.
BuildPayloadWithoutStatus(property_data, now) ==
    [k \in ({j \in DOMAIN property_data \cap Columns : property_data[j] # None}
                \cup {"updatedAt", "scrapedAt"}) \ {"status", "descriptionEmbedding"} |->
        IF k \in {"updatedAt", "scrapedAt"} THEN Some(now) ELSE property_data[k]]

\* upsert_property, lines 126-172: the payload built from property_data
BuildPayload(property_data, now) ==
    LET payload ==
            [k \in Columns \ {"id", "createdAt", "descriptionEmbedding"} |->
                CASE k = "sourceUrl" -> property_data["sourceUrl"]
                  [] k = "source" -> GetOr(property_data, "source", Some("TUNISIE_ANNONCE"))
                  [] k = "listingType" -> property_data["listingType"]
                  [] k = "status" -> GetOr(property_data, "status", Some("ACTIVE"))
                  [] k = "title" -> property_data["title"]
                  [] k = "price" -> property_data["price"]
                  [] k = "features" -> GetOr(property_data, "features", Some(<<>>))
                  [] k = "aiTags" -> GetOr(property_data, "aiTags", Some(<<>>))
                  [] k \in {"updatedAt", "scrapedAt"} -> Some(now)
                  [] OTHER -> Get(property_data, k)]
        withEmbedding ==
            IF TruthyList(Get(property_data, "descriptionEmbedding"))
            THEN payload @@ ("descriptionEmbedding" :>
                     Some(_format_vector(Val(property_data["descriptionEmbedding"]))))
            ELSE payload
    IN  \* Remove None values
        [k \in {j \in DOMAIN withEmbedding : withEmbedding[j] # None} |-> withEmbedding[k]]

\* The table after the "upsert logic": look the sourceUrl up; update the row
\* when there is one, insert otherwise
UpsertTable(table, payload, id, now) ==
    LET existing == SelectBySourceUrl(table, Val(payload["sourceUrl"]))
    IN  IF existing # {}
        THEN {IF r \in existing THEN UpdateRow(r, payload) ELSE r : r \in table}
        ELSE table \cup {NewRow(payload, id, now)}

\* The row of a sourceUrl, or None (when several rows share it, any of them)
RowOf(table, url) ==
    IF SelectBySourceUrl(table, url) = {} THEN None
    ELSE Some(CHOOSE r \in SelectBySourceUrl(table, url) : TRUE)

\* The record of the latest write: what was written, the row it found,
\* whether the write before it was the same one, and the time of the write
Written(kind, data, before) ==
    [kind |-> kind, data |-> data, before |-> before,
     repeat |-> (lastWrite.kind = kind /\ lastWrite.data = data), at |-> clock]

\* upsert_property(property_data), run to completion
upsert_property(property_data) ==
    LET payload == BuildPayload(property_data, clock)
        url == Val(payload["sourceUrl"])
        table == UpsertTable(properties, payload, nextId, clock)
    IN  /\ \A r \in table : RowValid(r)
        /\ properties' = table
        /\ nextId' = IF SelectBySourceUrl(properties, url) = {} THEN nextId + 1 ELSE nextId
        /\ lastWrite' = Written("upsert", property_data, RowOf(properties, url))
        /\ stats' = update_neighborhood_stats(table, stats, clock)
        /\ UNCHANGED clock

(***************************************************************************)
(* The admin editor (app/admin/page.tsx, lib/listings.ts)                  *)
(***************************************************************************)
\* Number(text) for the texts the editor is given here; NaN reaches the
\* store as null
Number(text) ==
    CASE text = "50" -> Some(50)
      [] text = "100" -> Some(100)
      [] text = "150" -> Some(150)
      [] OTHER -> None

\* text.split(",").map((f) => f.trim()).filter(Boolean), for the texts the
\* editor is given here
SplitFeatures(text) ==
    CASE text = "parking" -> <<"parking">>
      [] text = "parking, garden" -> <<"parking", "garden">>
      [] OTHER -> <<>>

\* form.x || null
OrNull(text) == IF text # "" THEN Some(text) ELSE None

\* form.x ? Number(form.x) : null
NumberOrNull(text) == IF text # "" THEN Number(text) ELSE None

\* A rating typed in points, in the tenths the dealRating column is held in
RatingOrNull(text) ==
    IF NumberOrNull(text) = None THEN None ELSE Some(10 * Val(NumberOrNull(text)))

\* handleSave, lines 119-138: the payload built from the form
SavePayload(form) ==
    [title |-> OrNull(form.title),
     price |-> NumberOrNull(form.price),
     city |-> OrNull(form.city),
     region |-> OrNull(form.region),
     listingType |-> OrNull(form.listingType),
     surfaceArea |-> NumberOrNull(form.surfaceArea),
     renovationScore |-> NumberOrNull(form.renovationScore),
     dealRating |-> RatingOrNull(form.dealRating),
     pricePerSqm |-> NumberOrNull(form.pricePerSqm),
     features |-> IF form.features # "" THEN Some(SplitFeatures(form.features))
                  ELSE Some(<<>>)]

\* updateListing, lines 247-250: { ...data, features: Array.isArray(...) }
UpdatePayload(data) ==
    [k \in DOMAIN data \cup {"features"} |->
        IF k = "features"
        THEN (IF "features" \in DOMAIN data /\ data["features"] # None
              THEN data["features"] ELSE None)
        ELSE data[k]]

\* updateListing(id, data): the table after .update(payload).eq("id", id);
\* an update the schema rejects changes nothing
UpdateListingTable(table, id, data) ==
    LET updated == {IF r.id = Some(id) THEN UpdateRow(r, UpdatePayload(data)) ELSE r :
                        r \in table}
    IN  IF \A r \in updated : RowValid(r) THEN updated ELSE table

\* Whether the store accepts the update
UpdateListingAccepted(table, id, data) ==
    \A r \in table : r.id = Some(id) => RowValid(UpdateRow(r, UpdatePayload(data)))

\* handleSave for the selected listing, run to completion (its effect on
\* the store)
handleSave(id, form) ==
    LET data == SavePayload(form)
        table == UpdateListingTable(properties, id, data)
        before == CHOOSE r \in properties : r.id = Some(id)
    IN  /\ properties' = table
        /\ lastWrite' = Written("save", data, Some(before))
        /\ stats' = IF UpdateListingAccepted(properties, id, data)
                    THEN update_neighborhood_stats(table, stats, clock)
                    ELSE stats
        /\ UNCHANGED <<nextId, clock>>

(***************************************************************************)
(* Spec: the store under sequential upserts and admin saves                *)
(***************************************************************************)
\* The latest time
MaxClock == 1

Urls == {"u1", "u2"}

\* What the normalizer hands to the upsert client for one listing
ScrapeData(url, listingType, price) ==
    [sourceUrl |-> Some(url), source |-> Some("TUNISIE_ANNONCE"),
     listingType |-> Some(listingType), status |-> Some("ACTIVE"),
     title |-> Some("t"), price |-> Some(price), features |-> Some(<<>>)]

\* The fields a caller that writes enrichment values supplies
Enrichment ==
    [aiTags |-> Some(<<"x">>), dealRating |-> Some(500),
     renovationScore |-> Some(7), descriptionEmbedding |-> Some(<<1, 2>>)]

Listings ==
    {ScrapeData("u1", "SALE", 100), ScrapeData("u1", "RENT", 200),
     ScrapeData("u2", "SALE", 100),
     Enrichment @@ ScrapeData("u1", "SALE", 100)}

\* What the admin may have typed into the form
Forms ==
    [title : {"t"}, price : {"100"}, city : {""}, region : {""},
     listingType : {"", "SALE"}, surfaceArea : {""}, renovationScore : {""},
     dealRating : {"", "50", "150"}, pricePerSqm : {""}, features : {""}]

Init ==
    /\ RateIdle
    /\ ClsIdle
    /\ StoreEmpty
    /\ NoCalls
    /\ StatsIdle
    /\ NoBatch
    /\ NoIngest
    /\ NoAuth
    /\ NoGeo
    /\ NoEditor

Tick ==
    /\ clock < MaxClock
    /\ clock' = clock + 1
    /\ UNCHANGED <<properties, nextId, lastWrite>>

Upsert ==
    /\ \E d \in Listings : upsert_property(d)
    /\ UNCHANGED <<geo, editor, rateVars, clsVars, ingest, auth, calls, batch>>

AdminSave ==
    /\ \E r \in properties, form \in Forms : handleSave(Val(r.id), form)
    /\ UNCHANGED <<geo, editor, rateVars, clsVars, ingest, auth, calls, batch>>

Next ==
    \/ Tick /\ UNCHANGED <<geo, editor, rateVars, clsVars, ingest, auth, calls, stats, batch>>
    \/ Upsert
    \/ AdminSave

Spec == Init /\ [][Next]_vars

(***************************************************************************)
(* Properties of the store                                                 *)
(***************************************************************************)
\* The sourceUrl the latest upsert carried
WrittenUrl == Val(lastWrite.data["sourceUrl"])

\* The row the latest write left behind
WrittenRow ==
    IF lastWrite.kind = "upsert" THEN Val(RowOf(properties, WrittenUrl))
    ELSE CHOOSE r \in properties : r.id = Val(lastWrite.before).id

\* The latest write was the second of two upserts of the same listing
SecondUpsert ==
    /\ lastWrite.kind = "upsert"
    /\ lastWrite.repeat
    /\ lastWrite.before # None

AgreeExcept(row, other, columns) == \A k \in Columns \ columns : row[k] = other[k]

C3_MergePreservation ==
    (lastWrite.kind = "upsert" /\ lastWrite.before # None) =>
        \A k \in EnrichmentOwned \ DOMAIN lastWrite.data :
            WrittenRow[k] = Val(lastWrite.before)[k]

\* The enrichment-owned columns other than aiTags do keep their value under
\* an upsert that supplies no key for them
C3_OthersPreserved ==
    (lastWrite.kind = "upsert" /\ lastWrite.before # None) =>
        \A k \in (EnrichmentOwned \ {"aiTags"}) \ DOMAIN lastWrite.data :
            WrittenRow[k] = Val(lastWrite.before)[k]

\* C5: every ACTIVE row has a listingType and a source, and a dealRating
\* that is present lies within [0, 100] (held in tenths).
C5_ActiveWellFormed ==
    \A r \in properties :
        r.status = Some("ACTIVE") =>
            /\ r.listingType # None
            /\ r.source # None
            /\ r.dealRating # None => (0 <= Val(r.dealRating) /\ Val(r.dealRating) <= 1000)

\* C14: no step changes the createdAt of a stored row, and every row's
\* createdAt is the time of its insert, never later than its updatedAt.
C14_CreatedAtSetOnce ==
    /\ [](\A r \in properties :
              r.createdAt # None /\ Val(r.createdAt) <= Val(r.updatedAt))
    /\ [][\A r \in properties : \A q \in properties' :
              q.id = r.id => q.createdAt = r.createdAt]_vars

\* A row was inserted at one time and written again, by an upsert, at a
\* later time, and still carries the time of its insert
C14_Witness ==
    /\ lastWrite.kind = "upsert"
    /\ lastWrite.before # None
    /\ WrittenRow.createdAt = Some(0)
    /\ WrittenRow.updatedAt = Some(1)

\* The latest write changed a stored row (a save the store refused did not)
WroteRow ==
    \/ lastWrite.kind = "upsert"
    \/ /\ lastWrite.kind = "save"
       /\ RowValid(UpdateRow(Val(lastWrite.before), UpdatePayload(lastWrite.data)))

\* The latest write came from the scrape path: an upsert that carries no
\* enrichment-owned field
ScrapeWrite ==
    /\ lastWrite.kind = "upsert"
    /\ DOMAIN lastWrite.data \cap EnrichmentOwned = {}

\* C15: every write sets updatedAt to the time of the write; a scrape-path
\* write sets scrapedAt too; any other write to a stored row (an upsert
\* that carries enrichment values, an admin save) leaves scrapedAt as it was.
C15_StampsByOrigin ==
    WroteRow =>
        /\ WrittenRow.updatedAt = Some(lastWrite.at)
        /\ ScrapeWrite => WrittenRow.scrapedAt = Some(lastWrite.at)
        /\ (~ScrapeWrite /\ lastWrite.before # None) =>
               WrittenRow.scrapedAt = Val(lastWrite.before).scrapedAt

\* What does hold: every upsert sets updatedAt and scrapedAt to its time
C15_UpsertStampsBoth ==
    lastWrite.kind = "upsert" =>
        /\ WrittenRow.updatedAt = Some(lastWrite.at)
        /\ WrittenRow.scrapedAt = Some(lastWrite.at)

(***************************************************************************)
(* SpecRace: concurrent upsert calls for one sourceUrl.  Each call is the  *)
(* sequence lookup, then insert or update; the store checks the uniqueness *)
(* of sourceUrl on every insert.                                           *)
(***************************************************************************)
Procs == {"p1", "p2"}

RaceUrl == "u1"

RaceListings == {ScrapeData(RaceUrl, "SALE", 100), ScrapeData(RaceUrl, "RENT", 200)}

IdleCall == [pc |-> "idle", payload |-> <<>>, ret |-> None, retried |-> FALSE]

\* Mutant: the store has no uniqueness constraint on sourceUrl.
UniqueViolationNever(table, url) == FALSE

\* The store's uniqueness constraint on sourceUrl: an insert of a sourceUrl
\* that a row already carries is refused
UniqueViolation(table, url) == SelectBySourceUrl(table, url) # {}

\* A call whose insert is refused retries as an update
AfterRefusedInsert(call) == [call EXCEPT !.pc = "update", !.retried = TRUE]

InitRace ==
    /\ RateIdle
    /\ ClsIdle
    /\ StoreEmpty
    /\ StatsIdle
    /\ NoBatch
    /\ NoIngest
    /\ NoAuth
    /\ NoGeo
    /\ NoEditor
    /\ calls = [p \in Procs |-> IdleCall]

\* upsert_property is entered: the payload is built with the current time
RaceBegin(p) ==
    /\ calls[p].pc = "idle"
    /\ \E d \in RaceListings :
           calls' = [calls EXCEPT ![p] = [@ EXCEPT !.pc = "lookup",
                                                   !.payload = BuildPayload(d, clock)]]
    /\ UNCHANGED <<properties, nextId, clock, lastWrite>>

\* The call looks its sourceUrl up
RaceLookup(p) ==
    /\ calls[p].pc = "lookup"
    /\ calls' = [calls EXCEPT ![p].pc =
                    IF SelectBySourceUrl(properties, Val(calls[p].payload["sourceUrl"])) = {}
                    THEN "insert" ELSE "update"]
    /\ UNCHANGED <<properties, nextId, clock, lastWrite>>

\* The call found no row and inserts one
RaceInsert(p) ==
    /\ calls[p].pc = "insert"
    /\ IF UniqueViolation(properties, Val(calls[p].payload["sourceUrl"]))
       THEN /\ calls' = [calls EXCEPT ![p] = AfterRefusedInsert(@)]
            /\ UNCHANGED <<properties, nextId>>
       ELSE /\ properties' = properties \cup {NewRow(calls[p].payload, nextId, clock)}
            /\ nextId' = nextId + 1
            /\ calls' = [calls EXCEPT ![p] = [@ EXCEPT !.pc = "done", !.ret = Some(nextId)]]
    /\ UNCHANGED <<clock, lastWrite>>

\* The call updates the row of its sourceUrl and returns that row's id
RaceUpdate(p) ==
    /\ calls[p].pc = "update"
    /\ LET existing == SelectBySourceUrl(properties, Val(calls[p].payload["sourceUrl"]))
       IN  /\ properties' = {IF r \in existing THEN UpdateRow(r, calls[p].payload) ELSE r :
                                 r \in properties}
           /\ calls' = [calls EXCEPT ![p] =
                           IF existing = {} THEN [@ EXCEPT !.pc = "failed"]
                           ELSE [@ EXCEPT !.pc = "done",
                                          !.ret = (CHOOSE r \in existing : TRUE).id]]
    /\ UNCHANGED <<nextId, clock, lastWrite>>

RaceTick ==
    /\ clock < MaxClock
    /\ clock' = clock + 1
    /\ UNCHANGED <<properties, nextId, lastWrite, calls>>

NextRace ==
    \/ \E p \in Procs : RaceBegin(p) /\ UNCHANGED <<geo, editor, rateVars, clsVars, ingest, auth, stats, batch>>
    \/ \E p \in Procs : RaceLookup(p) /\ UNCHANGED <<geo, editor, rateVars, clsVars, ingest, auth, stats, batch>>
    \/ \E p \in Procs : RaceInsert(p) /\ UNCHANGED <<geo, editor, rateVars, clsVars, ingest, auth, stats, batch>>
    \/ \E p \in Procs : RaceUpdate(p) /\ UNCHANGED <<geo, editor, rateVars, clsVars, ingest, auth, stats, batch>>
    \/ RaceTick /\ UNCHANGED <<geo, editor, rateVars, clsVars, ingest, auth, stats, batch>>

SpecRace == InitRace /\ [][NextRace]_vars

AllCallsDone == \A p \in DOMAIN calls : calls[p].pc = "done"

\* C1: under every interleaving of the concurrent upsert calls for one
\* sourceUrl no call fails and the store never holds two rows for the
\* sourceUrl; once every call has returned there is exactly one row, and
\* every call returned that row's id.
C1_OneRowNoFailure ==
    /\ \A p \in DOMAIN calls : calls[p].pc # "failed"
    /\ Cardinality(SelectBySourceUrl(properties, RaceUrl)) <= 1
    /\ (calls # <<>> /\ AllCallsDone) =>
           /\ Cardinality(SelectBySourceUrl(properties, RaceUrl)) = 1
           /\ \A p \in DOMAIN calls : calls[p].ret = Val(RowOf(properties, RaceUrl)).id

\* Both calls have returned and one of them lost the insert race
C1_Witness ==
    /\ calls # <<>>
    /\ AllCallsDone
    /\ \E p \in DOMAIN calls : calls[p].retried
    /\ Cardinality(SelectBySourceUrl(properties, RaceUrl)) = 1

(***************************************************************************)
(* SpecAgg: the statistics table under scrapes of located listings         *)
(***************************************************************************)
\* The most rows the statistics table is let grow to
MaxStatsRows == 3

\* A normalized listing with a locality; every listing here carries a price
Located(url, city, region, surfaceArea, price) ==
    [city |-> Some(city), region |-> region, surfaceArea |-> surfaceArea]
        @@ ScrapeData(url, "SALE", price)

AggListings ==
    {Located("u1", "Tunis", Some("Marsa"), Some(100), 200000),
     Located("u1", "Sfax", Some("Centre"), Some(100), 200000),
     Located("u2", "Tunis", Some("Marsa"), Some(50), 150000),
     Located("u2", "Tunis", None, Some(100), 300000),
     Located("u2", "Tunis", Some("Marsa"), None, 300000)}

InitAgg ==
    /\ RateIdle
    /\ ClsIdle
    /\ StoreEmpty
    /\ NoCalls
    /\ NoBatch
    /\ NoIngest
    /\ NoAuth
    /\ NoGeo
    /\ NoEditor
    /\ stats \in {EmptyStats(b) : b \in BOOLEAN}

\* One scrape-path upsert; the trigger runs with the write
AggUpsert ==
    /\ \E d \in AggListings : upsert_property(d)
    /\ Cardinality(stats'.rows) <= MaxStatsRows
    /\ UNCHANGED <<geo, editor, rateVars, clsVars, ingest, auth, calls, batch>>

NextAgg ==
    \/ AggUpsert
    \/ Tick /\ UNCHANGED <<geo, editor, rateVars, clsVars, ingest, auth, calls, stats, batch>>

SpecAgg == InitAgg /\ [][NextAgg]_vars

\* The localities represented in the Property set: the (city, region) pairs
\* of the properties that have a city, a surfaceArea and a price
Localities(table) ==
    {<<r.city, r.region>> : r \in {x \in table : /\ x.city # None
                                                  /\ x.surfaceArea # None
                                                  /\ x.price # None}}

StatsKeys == {<<e.city, e.region>> : e \in stats.rows}

\* C6: after a run of the statistics function the statistics table holds
\* exactly one row for each locality represented in the Property set (a
\* null region being a key value) and no row for any other locality.
C6_ExactlyTheLocalities ==
    lastWrite.kind = "upsert" =>
        /\ StatsKeys = Localities(properties)
        /\ Cardinality(stats.rows) = Cardinality(Localities(properties))

\* What does hold after a run: every represented locality has a row
C6_EveryLocalityHasARow ==
    lastWrite.kind = "upsert" => Localities(properties) \subseteq StatsKeys

\* The properties of a locality, with or without a surfaceArea
InLocality(table, city, region) == {r \in table : r.city = city /\ r.region = region}

\* The statistics rows of the localities that a property with a positive
\* surfaceArea represents; the run recomputes these
FreshStats ==
    {e \in stats.rows : StatsGroup(properties, <<e.city, e.region>>) # {}}

\* C17: after a run, the row of a locality counts every property of the
\* locality in total_listings, those without a positive surfaceArea
\* included, while its average price per sqm is taken over the properties
\* with a positive surfaceArea only.
C17_SurfacelessCountedNotAveraged ==
    lastWrite.kind = "upsert" =>
        \A e \in FreshStats :
            /\ e.total_listings = Cardinality(InLocality(properties, e.city, e.region))
            /\ e.avg_price_per_sqm =
                   AvgPricePerSqm({r \in InLocality(properties, e.city, e.region) :
                                      r.surfaceArea # None /\ Val(r.surfaceArea) > 0})

\* What does hold: a property without a positive surfaceArea enters
\* neither the average nor the counts
C17_SurfacelessLeftOut ==
    lastWrite.kind = "upsert" =>
        \A e \in FreshStats :
            /\ e.total_listings = Cardinality(StatsGroup(properties, <<e.city, e.region>>))
            /\ e.avg_price_per_sqm = AvgPricePerSqm(StatsGroup(properties, <<e.city, e.region>>))

(***************************************************************************)
(* SpecBatch: the orchestrator's run over one batch of listing URLs.  Each *)
(* listing goes through fetch, parse, normalize, geocode and persist; a    *)
(* failure at any stage is caught and counted.                             *)
(***************************************************************************)
\* The most listings in a batch
MaxBatch == 5

\* The number of consecutive failed items at which the run is abandoned
FailureThreshold == 3

\* The stages an item can fail at, in pipeline order (a geocoding miss is a
\* null result, not a failure)
FailStages == <<"fetch", "parse", "normalize", "persist">>

StageSet == {FailStages[i] : i \in DOMAIN FailStages}

\* The listing URL of the i-th item
ItemUrl(i) == i

\* The normalized record of the i-th item, with or without coordinates
ItemData(i, geocoded) ==
    IF geocoded
    THEN [latitude |-> Some(36), longitude |-> Some(10)] @@ ScrapeData(ItemUrl(i), "SALE", 100)
    ELSE ScrapeData(ItemUrl(i), "SALE", 100)

NewBatch(n) ==
    [size |-> n, outcomes |-> <<>>, state |-> "running", consecutive |-> 0,
     fetched |-> 0, normalized |-> 0, geocoded |-> 0, persisted |-> 0,
     skipped |-> [st \in StageSet |-> 0]]

\* The counters after an item that got through every stage before stage
Reached(b, stage) ==
    [b EXCEPT !.fetched = @ + (IF stage \in {"parse", "normalize", "persist"} THEN 1 ELSE 0),
              !.normalized = @ + (IF stage = "persist" THEN 1 ELSE 0)]

\* Mutant: a failed item is raised to the caller.
AfterFailureRaises(b, stage) == [b EXCEPT !.state = "raised"]

\* Mutant: the run goes on however many items in a row have failed.
AfterFailureNeverAborts(b, stage) ==
    [Reached(b, stage) EXCEPT
        !.outcomes = Append(@, stage),
        !.skipped[stage] = @ + 1,
        !.consecutive = @ + 1,
        !.state = IF Len(b.outcomes) + 1 = b.size THEN "finished" ELSE "running"]

\* A failure at a stage is caught: the item is counted as skipped at that
\* stage, and the run is abandoned once FailureThreshold items in a row
\* have failed
AfterFailure(b, stage) ==
    [Reached(b, stage) EXCEPT
        !.outcomes = Append(@, stage),
        !.skipped[stage] = @ + 1,
        !.consecutive = @ + 1,
        !.state = IF b.consecutive + 1 >= FailureThreshold THEN "aborted"
                  ELSE IF Len(b.outcomes) + 1 = b.size THEN "finished"
                  ELSE "running"]

\* An item got through every stage
AfterSuccess(b, geocoded) ==
    [b EXCEPT !.outcomes = Append(@, "ok"),
              !.fetched = @ + 1,
              !.normalized = @ + 1,
              !.geocoded = @ + (IF geocoded THEN 1 ELSE 0),
              !.persisted = @ + 1,
              !.consecutive = 0,
              !.state = IF Len(b.outcomes) + 1 = b.size THEN "finished" ELSE "running"]

InitBatch ==
    /\ RateIdle
    /\ ClsIdle
    /\ StoreEmpty
    /\ NoCalls
    /\ StatsIdle
    /\ NoIngest
    /\ NoAuth
    /\ NoGeo
    /\ NoEditor
    /\ batch \in {NewBatch(n) : n \in 1..MaxBatch}

\* The next item is fetched, parsed, normalized, geocoded and persisted
BatchItemOk ==
    /\ batch.state = "running"
    /\ \E geocoded \in BOOLEAN :
           /\ upsert_property(ItemData(Len(batch.outcomes) + 1, geocoded))
           /\ batch' = AfterSuccess(batch, geocoded)
    /\ UNCHANGED <<geo, editor, rateVars, clsVars, ingest, auth, calls>>

\* The next item fails at some stage
BatchItemFails ==
    /\ batch.state = "running"
    /\ \E stage \in StageSet : batch' = AfterFailure(batch, stage)
    /\ UNCHANGED <<geo, editor, rateVars, clsVars, ingest, auth, calls, storeVars, stats>>

\* The run is over: the summary goes to the caller
BatchReturn ==
    /\ batch.state \in {"finished", "aborted"}
    /\ batch' = [batch EXCEPT !.state = "returned"]
    /\ UNCHANGED <<geo, editor, rateVars, clsVars, ingest, auth, calls, storeVars, stats>>

NextBatch ==
    \/ BatchItemOk
    \/ BatchItemFails
    \/ BatchReturn

SpecBatch == InitBatch /\ [][NextBatch]_vars

\* The number of items with one of the given outcomes
CountOutcomes(outcomes, set) == Cardinality({i \in DOMAIN outcomes : outcomes[i] \in set})

\* The run ended with FailureThreshold failed items in a row
EndsInFailureRun(outcomes) ==
    /\ Len(outcomes) >= FailureThreshold
    /\ \A i \in (Len(outcomes) - FailureThreshold + 1)..Len(outcomes) : outcomes[i] # "ok"

SkippedTotal(b) ==
    b.skipped["fetch"] + b.skipped["parse"] + b.skipped["normalize"] + b.skipped["persist"]

BatchOver == batch # <<>> /\ batch.state = "returned"

FailureRunEndsAt(outcomes, k) ==
    /\ k >= FailureThreshold
    /\ k <= Len(outcomes)
    /\ \A i \in (k - FailureThreshold + 1)..k : outcomes[i] # "ok"

NewRun(size, cap) ==
    [size |-> size, cap |-> cap, issued |-> 0, normalized |-> {}, pending |-> <<>>,
     cancelled |-> FALSE, state |-> "running"]

\* Mutant: a fetch is issued whether or not the run was cancelled.
CanFetchIgnoresCancel(b) == b.state = "running" /\ b.issued < b.size

\* Whether the run may issue its next fetch
CanFetch(b) == b.state = "running" /\ ~b.cancelled /\ b.issued < b.size

InitCancel ==
    /\ RateIdle
    /\ ClsIdle
    /\ StoreEmpty
    /\ NoCalls
    /\ StatsIdle
    /\ NoIngest
    /\ NoAuth
    /\ NoGeo
    /\ NoEditor
    /\ batch \in {NewRun(n, cap) : n \in 1..MaxBatch, cap \in 1..MaxBatch}

\* The next listing is fetched; when it gets through normalization it is
\* handed on for persistence.  Reaching the cap cancels the run.
CancelFetch ==
    /\ CanFetch(batch)
    /\ \E ok \in BOOLEAN :
           batch' = [batch EXCEPT
                        !.issued = @ + 1,
                        !.normalized = IF ok THEN @ \cup {batch.issued + 1} ELSE @,
                        !.pending = IF ok THEN Append(@, batch.issued + 1) ELSE @,
                        !.cancelled = batch.issued + 1 >= batch.cap]
    /\ UNCHANGED <<geo, editor, rateVars, clsVars, ingest, auth, calls, storeVars, stats>>

\* The oldest normalized item is persisted, cancelled or not
CancelPersist ==
    /\ batch.state = "running"
    /\ batch.pending # <<>>
    /\ upsert_property(ItemData(Head(batch.pending), FALSE))
    /\ batch' = [batch EXCEPT !.pending = Tail(@)]
    /\ UNCHANGED <<geo, editor, rateVars, clsVars, ingest, auth, calls>>

\* The external signal arrives
CancelSignal ==
    /\ batch.state = "running"
    /\ ~batch.cancelled
    /\ batch' = [batch EXCEPT !.cancelled = TRUE]
    /\ UNCHANGED <<geo, editor, rateVars, clsVars, ingest, auth, calls, storeVars, stats>>

\* The run returns once nothing is left to fetch or to persist
CancelReturn ==
    /\ batch.state = "running"
    /\ batch.cancelled \/ batch.issued = batch.size
    /\ batch.pending = <<>>
    /\ batch' = [batch EXCEPT !.state = "returned"]
    /\ UNCHANGED <<geo, editor, rateVars, clsVars, ingest, auth, calls, storeVars, stats>>

NextCancel ==
    \/ CancelFetch
    \/ CancelPersist
    \/ CancelSignal
    \/ CancelReturn

SpecCancel == InitCancel /\ [][NextCancel]_vars

\* The listing URLs that have a row in the store
StoredUrls(table) == {Val(r.sourceUrl) : r \in table}

\* C23: once the run is cancelled (by the signal or by the cap) no new fetch
\* is issued; every item that was normalized has been persisted when the
\* run returns; and a row that was persisted is never taken back.
C23_EarlyTermination ==
    /\ [][batch.cancelled => batch'.issued = batch.issued]_vars
    /\ [][StoredUrls(properties) \subseteq StoredUrls(properties')]_vars
    /\ [](batch.state = "returned" =>
              {ItemUrl(i) : i \in batch.normalized} \subseteq StoredUrls(properties))

\* A run of 3 was cancelled by the signal after its first item was
\* normalized and before it was persisted; the item is in the store, and
\* nothing else was fetched
C23_Witness ==
    /\ batch.state = "returned"
    /\ batch.size = 3
    /\ batch.cap = 3
    /\ batch.cancelled
    /\ batch.issued = 1
    /\ batch.normalized = {1}
    /\ StoredUrls(properties) = {ItemUrl(1)}

(***************************************************************************)
(* The normalizer (normalizer.py)                                          *)
(***************************************************************************)
\* PROPERTY_TYPE_MAP, in the order of the dict: <<keyword, enum value>>
PROPERTY_TYPE_MAP ==
    <<
      <<<<"a", "p", "p", "a", "r", "t", "e", "m", "e", "n", "t">>, "APARTMENT">>,
      <<<<"a", "p", "p", "a", "r", "t">>, "APARTMENT">>,
      <<<<"s", "t", "u", "d", "i", "o">>, "STUDIO">>,
      <<<<"s", "1">>, "STUDIO">>,
      <<<<"s", "2">>, "APARTMENT">>,
      <<<<"s", "3">>, "APARTMENT">>,
      <<<<"s", "4">>, "APARTMENT">>,
      <<<<"s", "+">>, "APARTMENT">>,
      <<<<"m", "a", "i", "s", "o", "n">>, "HOUSE">>,
      <<<<"v", "i", "l", "l", "a">>, "VILLA">>,
      <<<<"d", "u", "p", "l", "e", "x">>, "DUPLEX">>,
      <<<<"p", "e", "n", "t", "h", "o", "u", "s", "e">>, "PENTHOUSE">>,
      <<<<"t", "e", "r", "r", "a", "i", "n">>, "LAND">>,
      <<<<"alif", "ra", "dad">>, "LAND">>,
      <<<<"alifhamza", "ra", "dad">>, "LAND">>,
      <<<<"b", "u", "r", "e", "a", "u">>, "OFFICE">>,
      <<<<"l", "o", "c", "a", "l", " ", "c", "o", "m", "m", "e", "r", "c", "i", "a", "l">>, "COMMERCIAL">>,
      <<<<"c", "o", "m", "m", "e", "r", "c", "i", "a", "l">>, "COMMERCIAL">>,
      <<<<"f", "e", "r", "m", "e">>, "FARM">>,
      <<<<"mim", "zay", "ra", "ayn", "tamarbuta">>, "FARM">>
    >>

RECURSIVE FirstMatch(_, _)
\* The enum value of the first entry whose keyword occurs in the text
FirstMatch(entries, text) ==
    IF entries = <<>> THEN None
    ELSE IF Occurs(ToLower(entries[1][1]), text) THEN Some(entries[1][2])
    ELSE FirstMatch(Tail(entries), text)

\* Mutant: the title is matched as written, not lower-cased.
_extract_property_type_as_written(title) == FirstMatch(PROPERTY_TYPE_MAP, title)

\* DataNormalizer._extract_property_type
_extract_property_type(title) == FirstMatch(PROPERTY_TYPE_MAP, ToLower(title))

\* feature_keywords, in the order of the dict: <<feature, keywords>>
feature_keywords ==
    <<
      <<"parking",
        <<<<"p", "a", "r", "k", "i", "n", "g">>,
          <<"g", "a", "r", "a", "g", "e">>,
          <<"s", "t", "a", "t", "i", "o", "n", "n", "e", "m", "e", "n", "t">>>>>>,
      <<"elevator",
        <<<<"a", "s", "c", "e", "n", "s", "e", "u", "r">>,
          <<"l", "i", "f", "t">>>>>>,
      <<"garden",
        <<<<"j", "a", "r", "d", "i", "n">>,
          <<"g", "r", "e", "e", "n", " ", "s", "p", "a", "c", "e">>>>>>,
      <<"pool",
        <<<<"p", "i", "s", "c", "i", "n", "e">>,
          <<"p", "o", "o", "l">>,
          <<"s", "w", "i", "m", "m", "i", "n", "g">>>>>>,
      <<"balcony",
        <<<<"b", "a", "l", "c", "o", "n">>,
          <<"t", "e", "r", "r", "a", "s", "s", "e">>,
          <<"b", "a", "l", "c", "o", "n", "y">>>>>>,
      <<"furnished",
        <<<<"m", "e", "u", "b", "l", "eacute">>,
          <<"f", "u", "r", "n", "i", "s", "h", "e", "d">>,
          <<"eacute", "q", "u", "i", "p", "eacute">>>>>>,
      <<"air_conditioning",
        <<<<"c", "l", "i", "m", "a", "t", "i", "s", "eacute">>,
          <<"c", "l", "i", "m", "a", "t", "i", "s", "a", "t", "i", "o", "n">>,
          <<"c", "l", "i", "m">>,
          <<"a", "/", "c">>>>>>,
      <<"heating",
        <<<<"c", "h", "a", "u", "f", "f", "a", "g", "e">>,
          <<"h", "e", "a", "t", "i", "n", "g">>>>>>,
      <<"security",
        <<<<"g", "a", "r", "d", "eacute">>,
          <<"s", "eacute", "c", "u", "r", "i", "s", "eacute">>,
          <<"s", "e", "c", "u", "r", "i", "t", "y">>,
          <<"c", "o", "n", "c", "i", "e", "r", "g", "e">>>>>>,
      <<"fiber",
        <<<<"f", "i", "b", "r", "e">>,
          <<"f", "i", "b", "e", "r">>,
          <<"i", "n", "t", "e", "r", "n", "e", "t">>>>>>
    >>

RECURSIVE FeaturesOf(_, _)
FeaturesOf(entries, text) ==
    IF entries = <<>> THEN <<>>
    ELSE (IF \E i \in DOMAIN entries[1][2] : Occurs(entries[1][2][i], text)
          THEN <<entries[1][1]>> ELSE <<>>) \o FeaturesOf(Tail(entries), text)

\* DataNormalizer._extract_features
_extract_features(description) ==
    IF description = None \/ Val(description) = <<>> THEN <<>>
    ELSE FeaturesOf(feature_keywords, ToLower(Val(description)))

\* A call's outcome: the value it returned, or the exception it raised
Returned(value) == [raised |-> "none", value |-> value]

Raised(exception) == [raised |-> exception, value |-> None]

\* Python's a / b on numbers
PyDiv(a, b) == IF b = 0 THEN Raised("ZeroDivisionError") ELSE Returned(Rat(a, b))

\* The dict d with d[k] = v
DictSet(d, k, v) == [j \in DOMAIN d \cup {k} |-> IF j = k THEN v ELSE d[j]]

\* normalize, lines 108-111: price per sqm, computed when the given
\* condition on surfaceArea holds
WithPricePerSqm(normalized, computable) ==
    IF ~computable THEN Returned(normalized)
    ELSE IF "price" \notin DOMAIN normalized THEN Raised("KeyError")
    ELSE IF normalized["price"] = None THEN Raised("TypeError")
    ELSE LET quotient == PyDiv(Val(normalized["price"]), Val(normalized["surfaceArea"]))
         IN  IF quotient.raised # "none" THEN quotient
             ELSE Returned(DictSet(normalized, "pricePerSqm", Some(quotient.value)))

\* Mutant: price per sqm is computed whenever surfaceArea is given.
PricePerSqmComputableIfGiven(normalized) == Get(normalized, "surfaceArea") # None

\* normalized.get('surfaceArea') and normalized.get('surfaceArea') > 0
PricePerSqmComputable(normalized) ==
    TruthyNum(Get(normalized, "surfaceArea")) /\ Val(normalized["surfaceArea"]) > 0

\* str(x) inside an f-string: None is written as the text None
FormatText(o) == IF o = None THEN <<"N", "o", "n", "e">> ELSE Val(o)

\* Mutant: normalize only copies its input.
normalize_copy_only(property_data) == Returned(property_data)

\* DataNormalizer.normalize, with the features line of the guide
normalize(property_data) ==
    IF {"title", "sourceUrl"} \ DOMAIN property_data # {} THEN Raised("KeyError")
    ELSE IF property_data["title"] = None THEN Raised("AttributeError")
    ELSE LET title == Val(property_data["title"])
             url == FormatText(property_data["sourceUrl"])
             description == GetOr(property_data, "description", Some(<<>>))
             classified ==
                 [k \in DOMAIN property_data
                        \cup {"propertyType", "listingType", "source", "status", "features"} |->
                     CASE k = "propertyType" -> _extract_property_type(title)
                       [] k = "listingType" ->
                              Some(_extract_listing_type(url, title, FormatText(description)))
                       [] k = "source" -> Some("TUNISIE_ANNONCE")
                       [] k = "status" -> Some("ACTIVE")
                       [] k = "features" -> Some(_extract_features(description))
                       [] OTHER -> property_data[k]]
         IN  WithPricePerSqm(classified, PricePerSqmComputable(classified))

(***************************************************************************)
(* The geocoder (geocoding.py) and the step that uses it                   *)
(***************************************************************************)
\* float(text) for the coordinate texts the provider answers with here;
\* None stands for ValueError
Float(text) ==
    CASE text = "36.8" -> Some(368)
      [] text = "10.2" -> Some(102)
      [] OTHER -> None

\* What requests.get can come back with: an exception (network failure,
\* timeout), or a response with a status code and a JSON list of matches
ProviderAnswers ==
    {[exception |-> TRUE, status_code |-> 0, json |-> <<>>],
     [exception |-> FALSE, status_code |-> 500, json |-> <<>>],
     [exception |-> FALSE, status_code |-> 200, json |-> <<>>],
     [exception |-> FALSE, status_code |-> 200, json |-> <<[lat |-> "36.8", lon |-> "10.2"]>>],
     [exception |-> FALSE, status_code |-> 200, json |-> <<[lat |-> "north", lon |-> "10.2"]>>]}

\* Geocoder.geocode, given what the provider answers when it is asked:
\* Returned(Some(<<lat, lng>>)) or Returned(None); every exception of the
\* request is caught
geocode(city, region, answer) ==
    IF ~TruthyStr(city) THEN Returned(None)
    ELSE IF answer.exception THEN Returned(None)
    ELSE IF answer.status_code = 200 /\ answer.json # <<>>
    THEN LET result == answer.json[1]
         IN  IF Float(result.lat) = None \/ Float(result.lon) = None
             THEN Returned(None)
             ELSE Returned(Some(<<Val(Float(result.lat)), Val(Float(result.lon))>>))
    ELSE Returned(None)

\* The caller's lines 312-315: lat, lng = <result>; if lat and lng: ...
\* Unpacking None raises TypeError.
UseGeocode(property_data, result) ==
    IF result = None THEN Raised("TypeError")
    ELSE LET lat == Val(result)[1]
             lng == Val(result)[2]
         IN  IF lat # 0 /\ lng # 0
             THEN Returned(DictSet(DictSet(property_data, "latitude", Some(lat)),
                                   "longitude", Some(lng)))
             ELSE Returned(property_data)

(***************************************************************************)
(* SpecGeo: one Geocoder over the geocode calls of a pipeline run          *)
(***************************************************************************)
\* The most geocode calls in a run
MaxGeoCalls == 3

\* The latest time of a run, in seconds
MaxGeoTime == 2

\* The delay the provider demands between two requests, in seconds
MinDelay == 1

\* Lines 284-287: the query text, as the pieces it is put together from
GeoQuery(city, region) ==
    <<Val(city)>> \o (IF TruthyStr(region) THEN <<", ", Val(region)>> ELSE <<>>)
                 \o <<", Tunisia">>

\* The localities of the properties of a run; many properties share one
GeoLocalities ==
    {<<None, None>>, <<Some("Tunis"), None>>, <<Some("Tunis"), Some("Marsa")>>,
     <<Some("Sfax"), None>>}

\* Geocoder.__init__: the object holds base_url and headers and nothing
\* else.  provider is the history of the requests sent, with their times.
NewGeocoder == [now |-> 0, served |-> 0, provider |-> <<>>, last |-> None]

InitGeo ==
    /\ RateIdle
    /\ ClsIdle
    /\ StoreEmpty
    /\ NoCalls
    /\ StatsIdle
    /\ NoBatch
    /\ NoIngest
    /\ NoAuth
    /\ NoEditor
    /\ geo = NewGeocoder

\* geocoder.geocode(city, region): without a city it returns at once; with
\* one it sends the request, whatever was asked before and whenever
Geocode ==
    /\ geo.served < MaxGeoCalls
    /\ \E l \in GeoLocalities, answer \in ProviderAnswers :
           geo' = [geo EXCEPT
                      !.served = @ + 1,
                      !.provider = IF TruthyStr(l[1])
                                   THEN Append(@, [key |-> l, query |-> GeoQuery(l[1], l[2]),
                                                   at |-> geo.now])
                                   ELSE @,
                      !.last = geocode(l[1], l[2], answer).value]
    /\ UNCHANGED <<editor, rateVars, clsVars, ingest, auth, calls, batch, storeVars, stats>>

\* A second passes between two calls of the run
GeoTick ==
    /\ geo.now < MaxGeoTime
    /\ geo' = [geo EXCEPT !.now = @ + 1]
    /\ UNCHANGED <<editor, rateVars, clsVars, ingest, auth, calls, batch, storeVars, stats>>

NextGeo ==
    \/ Geocode
    \/ GeoTick

SpecGeo == InitGeo /\ [][NextGeo]_vars

\* C21: over the geocode calls of a run the provider is asked at most once
\* for each (city, region) key; a later call with the same key is answered
\* from the cache.
C21_OneProviderCallPerKey ==
    geo # <<>> =>
        \A i, j \in DOMAIN geo.provider :
            geo.provider[i].key = geo.provider[j].key => i = j

\* What does hold: a call without a city never reaches the provider
C21_NoCityNoProviderCall ==
    geo # <<>> => \A i \in DOMAIN geo.provider : TruthyStr(geo.provider[i].key[1])

\* C22: any two consecutive requests to the provider are at least MinDelay
\* apart.
C22_MinimumDelayBetweenCalls ==
    geo # <<>> =>
        \A i \in DOMAIN geo.provider :
            i > 1 => geo.provider[i].at - geo.provider[i - 1].at >= MinDelay

(***************************************************************************)
(* SpecIngest: one scraped listing goes through normalize, the geocoding   *)
(* step and upsert_property.  An exception ends the listing's ingestion.   *)
(***************************************************************************)
T_test == <<"A", "p", "p", "a", "r", "t", "e", "m", "e", "n", "t", " ", "S", "+", "2", " ", "agrave", " ", "l", "o", "u", "e", "r">>

T_villa == <<"V", "i", "l", "l", "a", " ", "a", " ", "v", "e", "n", "d", "r", "e">>

T_terrain == <<"t", "e", "r", "r", "a", "i", "n">>

D_parking == <<"g", "a", "r", "a", "g", "e", ",", " ", "l", "o", "c", "a", "t", "i", "o", "n">>

T_villa_s3 == <<"V", "i", "l", "l", "a", " ", "S", "+", "3">>

D_maison == <<"M", "a", "i", "s", "o", "n">>

\* A key that may be absent from a dict, or present with one of the values
OptKey(k, values) == {<<>>} \cup {k :> v : v \in values}

IngestLocalities == {<<None, None>>, <<Some("Tunis"), None>>, <<Some("Tunis"), Some("Marsa")>>}

\* The dicts the scraper hands to the normalizer
IngestInputs ==
    {t @@ d @@ a @@ p @@ [sourceUrl |-> Some(u), city |-> l[1], region |-> l[2]] :
        t \in OptKey("title", {Some(<<>>), Some(T_test), Some(T_villa), Some(T_terrain),
                              Some(T_villa_s3)}),
        d \in OptKey("description", {Some(<<>>), Some(D_parking), Some(D_maison)}),
        a \in OptKey("surfaceArea", {None, Some(0), Some(-5), Some(100)}),
        p \in OptKey("price", {Some(0), Some(1000)}),
        u \in ClsUrls,
        l \in IngestLocalities}

NewIngest(input) ==
    [pc |-> "normalize", input |-> input, normalized |-> Returned(None),
     geocoded |-> Returned(None), asked |-> FALSE, data |-> <<>>, error |-> "none"]

InitIngest ==
    /\ RateIdle
    /\ ClsIdle
    /\ StoreEmpty
    /\ NoCalls
    /\ StatsIdle
    /\ NoBatch
    /\ NoAuth
    /\ NoGeo
    /\ NoEditor
    /\ ingest \in {NewIngest(input) : input \in IngestInputs}

\* The keys upsert_property reads with property_data[...]
UpsertRequired == {"sourceUrl", "listingType", "title", "price"}

IngestNormalize ==
    /\ ingest.pc = "normalize"
    /\ LET out == normalize(ingest.input)
       IN  ingest' = [ingest EXCEPT
                         !.normalized = out,
                         !.pc = IF out.raised = "none" THEN "geocode" ELSE "raised",
                         !.error = out.raised,
                         !.data = IF out.raised = "none" THEN out.value ELSE <<>>]
    /\ UNCHANGED <<geo, editor, rateVars, clsVars, auth, calls, batch, storeVars, stats>>

\* geocoder.geocode(city, region) and the lines that use its result
IngestGeocode ==
    /\ ingest.pc = "geocode"
    /\ \E answer \in ProviderAnswers :
           LET result == geocode(ingest.data["city"], ingest.data["region"], answer)
               used == UseGeocode(ingest.data, result.value)
           IN  ingest' = [ingest EXCEPT
                             !.geocoded = result,
                             !.asked = TRUE,
                             !.pc = IF used.raised = "none" THEN "persist" ELSE "raised",
                             !.error = used.raised,
                             !.data = IF used.raised = "none" THEN used.value ELSE @]
    /\ UNCHANGED <<geo, editor, rateVars, clsVars, auth, calls, batch, storeVars, stats>>

IngestPersist ==
    /\ ingest.pc = "persist"
    /\ IF UpsertRequired \subseteq DOMAIN ingest.data
       THEN /\ upsert_property(ingest.data)
            /\ ingest' = [ingest EXCEPT !.pc = "done"]
       ELSE /\ ingest' = [ingest EXCEPT !.pc = "raised", !.error = "KeyError"]
            /\ UNCHANGED <<storeVars, stats>>
    /\ UNCHANGED <<geo, editor, rateVars, clsVars, auth, calls, batch>>

NextIngest ==
    \/ IngestNormalize
    \/ IngestGeocode
    \/ IngestPersist

SpecIngest == InitIngest /\ [][NextIngest]_vars

(***************************************************************************)
(* Ingestion: properties                                                   *)
(***************************************************************************)
\* normalize has returned a record
Normalized == ingest # <<>> /\ ingest.pc # "normalize" /\ ingest.normalized.raised = "none"

InSurface == Get(ingest.input, "surfaceArea")

InPrice == Get(ingest.input, "price")

OutPricePerSqm == Get(ingest.normalized.value, "pricePerSqm")

\* C11: the record normalize returns has no pricePerSqm when surfaceArea is
\* null or <= 0, and normalize never divides by zero.
C11_NoPricePerSqmWithoutSurface ==
    /\ Normalized =>
           ((InSurface = None \/ Val(InSurface) <= 0) => OutPricePerSqm = None)
    /\ ingest # <<>> => ingest.normalized.raised # "ZeroDivisionError"

\* normalize was given a price and a surfaceArea of 0, and returned a record
\* without pricePerSqm
C11_Witness ==
    /\ Normalized
    /\ InSurface = Some(0)
    /\ InPrice = Some(1000)
    /\ OutPricePerSqm = None

\* The input has a non-empty title and a price
InTitledAndPriced ==
    /\ TruthyList(Get(ingest.input, "title"))
    /\ InPrice # None

\* C12: from an input with a non-empty title and a price normalize returns
\* a record; every record it returns has listingType RENT or SALE, source
\* TUNISIE_ANNONCE and status ACTIVE; no stored row has a null in a required
\* column; and an input normalize rejects is never stored.
C12_RequiredFieldsOrRejected ==
    ingest # <<>> =>
        /\ (InTitledAndPriced /\ ingest.pc # "normalize") => Normalized
        /\ Normalized =>
               /\ Get(ingest.normalized.value, "listingType") \in {Some(t) : t \in ListingTypes}
               /\ Get(ingest.normalized.value, "source") = Some("TUNISIE_ANNONCE")
               /\ Get(ingest.normalized.value, "status") = Some("ACTIVE")
        /\ \A r \in properties : RowValid(r)
        /\ ingest.normalized.raised # "none" => properties = {}

\* The listing of test_migration.py was normalized and stored: RENT,
\* APARTMENT, ACTIVE, 10.0 per sqm
C12_Witness ==
    /\ ingest # <<>>
    /\ ingest.pc = "done"
    /\ ingest.input["title"] = Some(T_test)
    /\ \E r \in properties :
           /\ r.listingType = Some("RENT")
           /\ r.propertyType = Some("APARTMENT")
           /\ r.source = Some("TUNISIE_ANNONCE")
           /\ r.status = Some("ACTIVE")
           /\ r.pricePerSqm = Some(<<10, 1>>)

\* geocode returned None for a record normalize accepted
GeocodeFailed ==
    /\ ingest # <<>>
    /\ ingest.asked
    /\ ingest.geocoded.value = None

\* C13: geocode never raises; when it returns None for a normalized record
\* the step that uses its result does not raise, and the record is stored
\* with null latitude and longitude.
C13_GeocodeFailureTolerated ==
    /\ ingest # <<>> => ingest.geocoded.raised = "none"
    /\ GeocodeFailed => ~(ingest.pc = "raised" /\ ingest.error = "TypeError")
    /\ (GeocodeFailed /\ ingest.pc = "done") =>
           \A r \in properties : r.latitude = None /\ r.longitude = None

\* What does hold: geocode itself returns None and never raises
C13_GeocodeNeverRaises ==
    ingest # <<>> => ingest.geocoded.raised = "none"

\* C20: the record normalize returns has a pricePerSqm only when price > 0
\* and surfaceArea > 0; with a price of 0 or no price it has none.
C20_PricePerSqmNeedsPrice ==
    Normalized =>
        (OutPricePerSqm # None =>
            /\ InPrice # None /\ Val(InPrice) > 0
            /\ InSurface # None /\ Val(InSurface) > 0)

\* The entries of the table whose keyword occurs in the text, whatever the
\* case of either
TypeMatches(text) ==
    {i \in DOMAIN PROPERTY_TYPE_MAP :
         Occurs(ToLower(PROPERTY_TYPE_MAP[i][1]), ToLower(text))}

\* The enum of the first entry of the table whose keyword occurs in the
\* text, or None
FirstTypeIn(text) ==
    IF TypeMatches(text) = {} THEN None
    ELSE Some(PROPERTY_TYPE_MAP[CHOOSE i \in TypeMatches(text) :
                                    \A j \in TypeMatches(text) : i <= j][2])

InTitle == Val(ingest.input["title"])

InDescription == Val(GetOr(ingest.input, "description", Some(<<>>)))

OutPropertyType == ingest.normalized.value["propertyType"]

\* C25 as stated: propertyType is the enum of the first table entry whose
\* keyword occurs in title+description, None when there is none.
C25_Original ==
    Normalized => OutPropertyType = FirstTypeIn(InTitle \o <<" ">> \o InDescription)

\* C25 amended: propertyType is the enum of the first entry, in table
\* order, whose keyword occurs as a case-insensitive substring of the title
\* (the description is not looked at), None when no keyword occurs; the
\* title "Appartement S+2 a louer" (with a-grave) gives APARTMENT.
C25_FirstMatchInTitle ==
    Normalized =>
        /\ OutPropertyType = FirstTypeIn(InTitle)
        /\ InTitle = T_test => OutPropertyType = Some("APARTMENT")
        /\ InTitle = <<>> => OutPropertyType = None

\* The title "Villa S+3" has the keywords of two entries; the earlier
\* entry of the table, s+, decides
C25_Witness ==
    /\ Normalized
    /\ InTitle = T_villa_s3
    /\ InDescription = D_maison
    /\ OutPropertyType = Some("APARTMENT")

(***************************************************************************)
(* SpecUpdate: stored properties under re-scrapes (normalize, then         *)
(* upsert_property), updateListing calls and status changes                *)
(***************************************************************************)
\* What the scraper extracts for a listing
RawListing(url, price) ==
    [sourceUrl |-> Some(url), title |-> Some(T_terrain), price |-> Some(price)]

\* The listing that is scraped again and again
RawListings == {RawListing(<<"u", "/", "1">>, 1000)}

\* The data updateListing may be called with: any part of a listing
UpdateData ==
    {<<>>,
     [price |-> Some(3000)],
     [features |-> Some(<<"garden">>)],
     [price |-> None, features |-> None]}

\* The store after the first scrape of the listings
InitUpdate ==
    /\ RateIdle
    /\ ClsIdle
    /\ NoCalls
    /\ StatsIdle
    /\ NoBatch
    /\ NoIngest
    /\ NoAuth
    /\ NoGeo
    /\ NoEditor
    /\ \E raw \in RawListings :
           properties = UpsertTable({}, BuildPayload(normalize(raw).value, 0), 1, 0)
    /\ nextId = 2
    /\ clock = 0
    /\ lastWrite = NoWrite

\* The scrape path for one listing: normalize, then upsert_property
Rescrape ==
    /\ \E raw \in RawListings :
           LET out == normalize(raw)
           IN  /\ out.raised = "none"
               /\ upsert_property(out.value)
    /\ UNCHANGED <<geo, editor, rateVars, clsVars, ingest, auth, calls, batch>>

\* updateListing(id, data), run to completion
UpdateListing ==
    /\ \E r \in properties, data \in UpdateData :
           /\ properties' = UpdateListingTable(properties, Val(r.id), data)
           /\ lastWrite' = Written("update", data, Some(r))
           /\ stats' = IF UpdateListingAccepted(properties, Val(r.id), data)
                       THEN update_neighborhood_stats(properties', stats, clock)
                       ELSE stats
    /\ UNCHANGED <<nextId, clock>>
    /\ UNCHANGED <<geo, editor, rateVars, clsVars, ingest, auth, calls, batch>>

\* A listing is marked sold, rented or inactive, or active again
SetStatus ==
    /\ \E r \in properties, st \in PropertyStatuses :
           /\ properties' = (properties \ {r}) \cup {[r EXCEPT !.status = Some(st)]}
           /\ lastWrite' = Written("status", <<>>, Some(r))
    /\ UNCHANGED <<nextId, clock>>
    /\ UNCHANGED <<geo, editor, rateVars, clsVars, ingest, auth, calls, stats, batch>>

NextUpdate ==
    \/ Rescrape
    \/ UpdateListing
    \/ SetStatus
    \/ Tick /\ UNCHANGED <<geo, editor, rateVars, clsVars, ingest, auth, calls, stats, batch>>

SpecUpdate == InitUpdate /\ [][NextUpdate]_vars

\* The row an updateListing call or a status change was applied to, now
TouchedRow == CHOOSE r \in properties : r.id = Val(lastWrite.before).id

\* C27: updateListing(id, data) changes only the fields present in data:
\* every other stored field, features included, is as it was before.
C27_OnlyGivenFieldsChange ==
    lastWrite.kind = "update" =>
        \A k \in Columns \ DOMAIN lastWrite.data :
            TouchedRow[k] = Val(lastWrite.before)[k]

\* What does hold: every stored field that data does not contain, other
\* than features, is as it was before
C27_OthersUnchanged ==
    lastWrite.kind = "update" =>
        \A k \in Columns \ (DOMAIN lastWrite.data \cup {"features"}) :
            TouchedRow[k] = Val(lastWrite.before)[k]

\* C30: after a scrape-path upsert of a listing that was already stored
\* its row has status ACTIVE, whatever its status was before.
C30_RescrapeWritesActive ==
    (lastWrite.kind = "upsert" /\ lastWrite.before # None) =>
        \A r \in SelectBySourceUrl(properties, WrittenUrl) : r.status = Some("ACTIVE")

\* A listing that had been marked SOLD was scraped again and is ACTIVE
C30_Witness ==
    /\ lastWrite.kind = "upsert"
    /\ lastWrite.before # None
    /\ Val(lastWrite.before).status = Some("SOLD")
    /\ \E r \in SelectBySourceUrl(properties, WrittenUrl) : r.status = Some("ACTIVE")

(***************************************************************************)
(* SpecEditor: the admin page with one listing selected, and the images    *)
(* table behind it.  Each handler runs up to its await when its button is  *)
(* clicked; the store serves the request; the handler then runs on with    *)
(* the result.  What a save does to the properties table is AdminSave.     *)
(***************************************************************************)
\* The most mutations started on the page
MaxOps == 3

\* What can stand in the image URL input
UrlTexts == {"", "a", " a ", "b"}

\* imageUrl.trim(), for the texts above
Trim(text) == IF text = " a " THEN "a" ELSE text

\* images?.forEach(...), lines 161-167: the URLs of the rows in the order
\* they were returned, each once
RECURSIVE Bucket(_, _)
Bucket(arr, rows) ==
    IF rows = <<>> THEN arr
    ELSE Bucket(IF \E i \in DOMAIN arr : arr[i] = Head(rows).url
                THEN arr ELSE Append(arr, Head(rows).url),
                Tail(rows))

\* Array.from(new Set([...images, url]))
SetAdd(images, url) ==
    IF \E i \in DOMAIN images : images[i] = url THEN images ELSE Append(images, url)

\* images.filter((img) => img !== url)
RECURSIVE Without(_, _)
Without(images, url) ==
    IF images = <<>> THEN <<>>
    ELSE IF Head(images) = url THEN Without(Tail(images), url)
    ELSE <<Head(images)>> \o Without(Tail(images), url)

\* images[0] ?? null, and images.find((img) => img !== url) ?? null
FirstOrNull(images) == IF images = <<>> THEN None ELSE Some(images[1])

\* The page after fetchListingsWithImages has loaded the listing; unique
\* tells whether the images table refuses a second row with the same
\* propertyId and url, which the source does not say
NewEditor(unique, rows) ==
    [unique |-> unique,
     rows |-> {rows[i] : i \in DOMAIN rows}, nextRow |-> Len(rows) + 1,
     images |-> Bucket(<<>>, rows), image |-> FirstOrNull(Bucket(<<>>, rows)),
     loading |-> FALSE, tone |-> "idle", imageUrl |-> "",
     flight |-> {}, started |-> 0]

InitEditor ==
    /\ RateIdle
    /\ ClsIdle
    /\ StoreEmpty
    /\ NoCalls
    /\ StatsIdle
    /\ NoBatch
    /\ NoIngest
    /\ NoAuth
    /\ NoGeo
    /\ editor \in {NewEditor(unique, rows) :
                       unique \in BOOLEAN,
                       rows \in {<<>>, <<[id |-> 1, url |-> "a"]>>}}

\* The handler up to its await: setLoading(true), setStatus(emptyStatus), and
\* the request is on its way
Started(e, kind, url) ==
    [e EXCEPT !.loading = TRUE, !.tone = "idle", !.started = @ + 1,
              !.flight = @ \cup {[n |-> e.started + 1, kind |-> kind, url |-> url,
                                  stage |-> "sent"]}]

\* onChange of the image URL input
TypeUrl ==
    /\ \E text \in UrlTexts \ {editor.imageUrl} :
           editor' = [editor EXCEPT !.imageUrl = text]
    /\ UNCHANGED <<geo, rateVars, clsVars, ingest, auth, calls, batch, storeVars, stats>>

\* The Save button, disabled={loading}
ClickSave ==
    /\ editor.started < MaxOps
    /\ ~editor.loading
    /\ editor' = Started(editor, "save", "")
    /\ UNCHANGED <<geo, rateVars, clsVars, ingest, auth, calls, batch, storeVars, stats>>

\* The Add image button, disabled={loading}; handleAddImage returns at once
\* when the trimmed text is empty
ClickAdd ==
    /\ editor.started < MaxOps
    /\ ~editor.loading
    /\ Trim(editor.imageUrl) # ""
    /\ editor' = Started(editor, "add", Trim(editor.imageUrl))
    /\ UNCHANGED <<geo, rateVars, clsVars, ingest, auth, calls, batch, storeVars, stats>>

\* The Remove button of an image chip; it has no disabled attribute
ClickRemove ==
    /\ editor.started < MaxOps
    /\ \E i \in DOMAIN editor.images :
           editor' = Started(editor, "remove", editor.images[i])
    /\ UNCHANGED <<geo, rateVars, clsVars, ingest, auth, calls, batch, storeVars, stats>>

\* The store serves a request: the insert, the delete or the update is
\* done, or it fails with an error and changes nothing
StoreServes ==
    /\ \E op \in editor.flight, fails \in BOOLEAN :
           /\ op.stage = "sent"
           /\ LET refused == \/ fails
                              \/ /\ op.kind = "add"
                                 /\ editor.unique
                                 /\ \E r \in editor.rows : r.url = op.url
                   done == [op EXCEPT !.stage = IF refused THEN "failed" ELSE "ok"]
               IN  editor' = [editor EXCEPT
                      !.flight = (@ \ {op}) \cup {done},
                      !.rows = IF refused THEN @
                               ELSE IF op.kind = "add"
                               THEN @ \cup {[id |-> editor.nextRow, url |-> op.url]}
                               ELSE IF op.kind = "remove"
                               THEN {r \in @ : r.url # op.url}
                               ELSE @,
                      !.nextRow = IF ~refused /\ op.kind = "add" THEN @ + 1 ELSE @]
    /\ UNCHANGED <<geo, rateVars, clsVars, ingest, auth, calls, batch, storeVars, stats>>

\* The handler after its await: the status, the local listing on success,
\* and setLoading(false)
HandlerResumes ==
    /\ \E op \in editor.flight :
           /\ op.stage # "sent"
           /\ LET ok == op.stage = "ok"
               IN  editor' = [editor EXCEPT
                      !.flight = @ \ {op},
                      !.tone = IF ok THEN "success" ELSE "error",
                      !.images = IF ok /\ op.kind = "add" THEN SetAdd(@, op.url)
                                 ELSE IF ok /\ op.kind = "remove" THEN Without(@, op.url)
                                 ELSE @,
                      !.image = IF ok /\ op.kind = "add"
                                THEN (IF @ # None THEN @ ELSE Some(op.url))
                                ELSE IF ok /\ op.kind = "remove" /\ @ = Some(op.url)
                                THEN FirstOrNull(Without(editor.images, op.url))
                                ELSE @,
                      !.imageUrl = IF ok /\ op.kind = "add" THEN "" ELSE @,
                      !.loading = FALSE]
    /\ UNCHANGED <<geo, rateVars, clsVars, ingest, auth, calls, batch, storeVars, stats>>

NextEditor ==
    \/ TypeUrl
    \/ ClickSave
    \/ ClickAdd
    \/ ClickRemove
    \/ StoreServes
    \/ HandlerResumes

SpecEditor == InitEditor /\ [][NextEditor]_vars

\* The URLs of the property's image rows
StoredImageUrls == {r.url : r \in editor.rows}

\* C26: no URL is in more than one image row of the property.
C26_OneRowPerUrl ==
    editor # <<>> =>
        \A r1, r2 \in editor.rows : r1.url = r2.url => r1 = r2

\* What does hold: when the images table refuses a second row for a URL,
\* no URL is in more than one row
C26_OneRowPerUrlIfUnique ==
    (editor # <<>> /\ editor.unique) =>
        \A r1, r2 \in editor.rows : r1.url = r2.url => r1 = r2

\* C29: at most one mutation is in flight, and loading is true whenever
\* one is.
C29_OneMutationInFlight ==
    editor # <<>> =>
        /\ Cardinality(editor.flight) <= 1
        /\ editor.flight # {} => editor.loading

\* What does hold: a save or an add is never started while loading is
\* true; only a remove is
C29_SaveAndAddWaitForLoading ==
    [][\A op \in editor'.flight :
           (op.n > editor.started /\ editor.loading) => op.kind = "remove"]_vars

\* C28: once every operation has come back, the local images list holds
\* each stored URL of the property once and nothing else, and the local
\* primary image is the first of the list, or null when it is empty.
C28_LocalMatchesStore ==
    (editor # <<>> /\ editor.flight = {}) =>
        /\ {editor.images[i] : i \in DOMAIN editor.images} = StoredImageUrls
        /\ \A i, j \in DOMAIN editor.images : editor.images[i] = editor.images[j] => i = j
        /\ editor.image = FirstOrNull(editor.images)

\* What does hold: the local list never holds a URL twice, and the primary
\* image is one of the list whenever there is one
C28_LocalListIsASet ==
    editor # <<>> =>
        /\ \A i, j \in DOMAIN editor.images : editor.images[i] = editor.images[j] => i = j
        /\ editor.image # None =>
               \/ \E i \in DOMAIN editor.images : editor.images[i] = Val(editor.image)
               \/ editor.flight # {}

(***************************************************************************)
(* The admin middleware (frontend/middleware.ts)                           *)
(***************************************************************************)
\* The printable ASCII characters, from code 32 (space) to code 126 (the
\* grave accent, code 96, by name)
AsciiPrintable ==
    <<" ", "!", "\"", "#", "$", "%", "&", "'", "(", ")", "*", "+", ",", "-", ".",
      "/", "0", "1", "2", "3", "4", "5", "6", "7", "8", "9", ":", ";", "<", "=", ">",
      "?", "@", "A", "B", "C", "D", "E", "F", "G", "H", "I", "J", "K", "L", "M", "N",
      "O", "P", "Q", "R", "S", "T", "U", "V", "W", "X", "Y", "Z", "[", "\\", "]",
      "^", "_", "grave", "a", "b", "c", "d", "e", "f", "g", "h", "i", "j", "k", "l", "m",
      "n", "o", "p", "q", "r", "s", "t", "u", "v", "w", "x", "y", "z", "{", "|", "}",
      "~">>

\* The byte of an ASCII character
CharCode(c) == 31 + CHOOSE i \in DOMAIN AsciiPrintable : AsciiPrintable[i] = c

\* Buffer.from(text): the bytes of the text
Bytes(text) == [i \in DOMAIN text |-> CharCode(text[i])]

Base64Alphabet ==
    <<"A", "B", "C", "D", "E", "F", "G", "H", "I", "J", "K", "L", "M", "N", "O", "P",
      "Q", "R", "S", "T", "U", "V", "W", "X", "Y", "Z", "a", "b", "c", "d", "e", "f",
      "g", "h", "i", "j", "k", "l", "m", "n", "o", "p", "q", "r", "s", "t", "u", "v",
      "w", "x", "y", "z", "0", "1", "2", "3", "4", "5", "6", "7", "8", "9", "+", "/">>

Base64Char(n) == Base64Alphabet[n + 1]

RECURSIVE Base64(_)
\* buffer.toString("base64")
Base64(b) ==
    IF Len(b) = 0 THEN <<>>
    ELSE IF Len(b) = 1
    THEN LET n == b[1] * 16
         IN  <<Base64Char(n \div 64), Base64Char(n % 64), "=", "=">>
    ELSE IF Len(b) = 2
    THEN LET n == (b[1] * 256 + b[2]) * 4
         IN  <<Base64Char(n \div 4096), Base64Char((n \div 64) % 64), Base64Char(n % 64), "=">>
    ELSE LET n == b[1] * 65536 + b[2] * 256 + b[3]
         IN  <<Base64Char(n \div 262144), Base64Char((n \div 4096) % 64),
               Base64Char((n \div 64) % 64), Base64Char(n % 64)>>
                 \o Base64(SubSeq(b, 4, Len(b)))

\* text.startsWith(prefix)
StartsWith(text, prefix) ==
    Len(text) >= Len(prefix) /\ SubSeq(text, 1, Len(prefix)) = prefix

P_admin == <<"/", "a", "d", "m", "i", "n">>

\* The template "Basic " + Buffer.from(user + ":" + pass).toString("base64")
BasicCredential(user, pass) ==
    <<"B", "a", "s", "i", "c", " ">> \o Base64(Bytes(user \o <<":">> \o pass))

\* process.env.ADMIN_USER || "admin"
ADMIN_USER(env) ==
    IF TruthyList(env.ADMIN_USER) THEN Val(env.ADMIN_USER) ELSE <<"a", "d", "m", "i", "n">>

\* ADMIN_PASS inside the template
ADMIN_PASS(env) == Val(env.ADMIN_PASS)

\* Mutant: any Basic header is accepted.
middleware_any_basic(env, req) ==
    IF ~StartsWith(req.pathname, P_admin) THEN "next"
    ELSE IF ~TruthyList(env.ADMIN_PASS) THEN "500"
    ELSE IF /\ req.authorization # None
            /\ StartsWith(Val(req.authorization), <<"B", "a", "s", "i", "c", " ">>)
    THEN "next"
    ELSE "401"

\* middleware(req): "next" for NextResponse.next(), or the status answered
middleware(env, req) ==
    IF ~StartsWith(req.pathname, P_admin) THEN "next"
    ELSE IF ~TruthyList(env.ADMIN_PASS) THEN "500"
    ELSE IF req.authorization = Some(BasicCredential(ADMIN_USER(env), ADMIN_PASS(env)))
    THEN "next"
    ELSE "401"

\* config.matcher ["/admin/:path*"]: the paths the middleware is run for
MatcherMatches(pathname) ==
    pathname = P_admin \/ StartsWith(pathname, P_admin \o <<"/">>)

\* What the server does with a request: the middleware's answer when the
\* matcher selects the path, and otherwise the request goes on unchecked
Answer(env, req) == IF MatcherMatches(req.pathname) THEN middleware(env, req) ELSE "next"

(***************************************************************************)
(* SpecAuth: requests against the admin middleware                         *)
(***************************************************************************)
AuthEnvs ==
    [ADMIN_USER : {None, Some(<<>>), Some(<<"b", "o", "b">>)},
     ADMIN_PASS : {None, Some(<<>>), Some(<<"p", "w">>)}]

AuthPaths ==
    {<<"/">>, <<"/", "l", "i", "s", "t", "i", "n", "g", "/", "1">>, P_admin, <<"/", "a", "d", "m", "i", "n", "/", "e", "d", "i", "t">>,
     <<"/", "a", "d", "m", "i", "n", "i", "s", "t", "r", "a", "t", "o", "r">>, <<"/", "a", "p", "i", "/", "a", "d", "m", "i", "n">>}

AuthHeaders ==
    {None, Some(<<"B", "a", "s", "i", "c", " ", "a", "d", "m", "i", "n", ":", "p", "w">>), Some(<<"B", "e", "a", "r", "e", "r", " ", "p", "w">>)}
        \cup {Some(BasicCredential(u, p)) :
                  u \in {<<"a", "d", "m", "i", "n">>, <<"b", "o", "b">>},
                  p \in {<<"p", "w">>, <<"p", "w", "d">>, <<>>}}

AuthRequests == [pathname : AuthPaths, authorization : AuthHeaders]

NoRequest == [pathname |-> <<>>, authorization |-> None]

InitAuth ==
    /\ RateIdle
    /\ ClsIdle
    /\ StoreEmpty
    /\ NoCalls
    /\ StatsIdle
    /\ NoBatch
    /\ NoIngest
    /\ NoGeo
    /\ NoEditor
    /\ auth \in {[env |-> e, req |-> NoRequest, res |-> "none"] : e \in AuthEnvs}

\* A request arrives and is answered
Request ==
    /\ \E req \in AuthRequests :
           auth' = [auth EXCEPT !.req = req, !.res = Answer(auth.env, req)]
    /\ UNCHANGED <<geo, editor, rateVars, clsVars, ingest, calls, batch, storeVars, stats>>

NextAuth == Request

SpecAuth == InitAuth /\ [][NextAuth]_vars

Answered == auth # <<>> /\ auth.res # "none"

PassConfigured == TruthyList(auth.env.ADMIN_PASS)

Authorized ==
    /\ PassConfigured
    /\ auth.req.authorization = Some(BasicCredential(ADMIN_USER(auth.env), ADMIN_PASS(auth.env)))

\* What a guarded request must be answered with
GuardedAnswer == IF ~PassConfigured THEN "500" ELSE IF Authorized THEN "next" ELSE "401"

\* C16 as stated: a request whose path starts with /admin is let through
\* only with the configured Basic credential, is answered 401 otherwise and
\* 500 when ADMIN_PASS is not configured; any other request is let through.
C16_Original ==
    Answered =>
        auth.res = IF StartsWith(auth.req.pathname, P_admin) THEN GuardedAnswer ELSE "next"

\* C16 amended: a request whose path is /admin or lies under /admin/ is let
\* through only with the configured Basic credential, is answered 401
\* otherwise and 500 when ADMIN_PASS is not configured; any other request,
\* /administrator included, is let through.
C16_GuardsAdminTree ==
    Answered =>
        auth.res = IF MatcherMatches(auth.req.pathname) THEN GuardedAnswer ELSE "next"

\* A request under /admin/ that carried the text Basic YWRtaW46cHc=, the
\* credential of admin:pw, was let through
C16_Witness ==
    /\ Answered
    /\ auth.req.pathname = <<"/", "a", "d", "m", "i", "n", "/", "e", "d", "i", "t">>
    /\ auth.env.ADMIN_PASS = Some(<<"p", "w">>)
    /\ auth.env.ADMIN_USER = None
    /\ auth.req.authorization =
           Some(<<"B", "a", "s", "i", "c", " ", "Y", "W", "R", "t", "a", "W", "4", "6", "c", "H", "c",
                  "=">>)
    /\ auth.res = "next"

====
